---- MODULE Spec2Model ----
(***************************************************************************)
(* Model of the document field extraction service: the passport and CNIC   *)
(* request handlers, DataExtractor.extractCNICData, extractPassportData    *)
(* and cleanData.  Text is handled character by character: every regular   *)
(* expression of the source is written as a pattern value and run by a     *)
(* backtracking matcher with JavaScript's leftmost, priority-ordered       *)
(* semantics.                                                              *)
(***************************************************************************)
EXTENDS Integers, Sequences, FiniteSets, TLC

(***************************************************************************)
(* Strings as sequences of one-character strings.                          *)
(***************************************************************************)
Chars(str) == [i \in 1..Len(str) |-> SubSeq(str, i, i)]

RECURSIVE StrRange(_, _, _)
\* the characters cs[lo..hi] joined into one string, by halves
StrRange(cs, lo, hi) ==
  IF lo > hi THEN ""
  ELSE IF lo = hi THEN cs[lo]
  ELSE LET mid == (lo + hi) \div 2
       IN StrRange(cs, lo, mid) \o StrRange(cs, mid + 1, hi)

Str(cs) == StrRange(cs, 1, Len(cs))

Range(f) == {f[i] : i \in DOMAIN f}

LowerAlpha == Chars("abcdefghijklmnopqrstuvwxyz")
UpperAlpha == Chars("ABCDEFGHIJKLMNOPQRSTUVWXYZ")
DigitChars == Chars("0123456789")

LOWER == Range(LowerAlpha)
UPPER == Range(UpperAlpha)
DIGIT == Range(DigitChars)
ALPHA == LOWER \cup UPPER
WORDCH == ALPHA \cup DIGIT \cup {"_"}
SPACE == {" ", "\t", "\n", "\r", "\f"}
NEWLINE == {"\n", "\r"}

ToUpperMap == [c \in LOWER |-> UpperAlpha[CHOOSE i \in 1..26 : LowerAlpha[i] = c]]
ToLowerMap == [c \in UPPER |-> LowerAlpha[CHOOSE i \in 1..26 : UpperAlpha[i] = c]]

UpperChar(c) == IF c \in LOWER THEN ToUpperMap[c] ELSE c
LowerChar(c) == IF c \in UPPER THEN ToLowerMap[c] ELSE c

toUpperCase(cs) == [i \in 1..Len(cs) |-> UpperChar(cs[i])]
toLowerCase(cs) == [i \in 1..Len(cs) |-> LowerChar(cs[i])]

Min(a, b) == IF a < b THEN a ELSE b
Max(a, b) == IF a > b THEN a ELSE b
SetMin(S) == CHOOSE a \in S : \A b \in S : a <= b

\* String.prototype.substring(from, to) with 0-based, end-exclusive indices
substring(cs, from, to) == SubSeq(cs, Min(from, Len(cs)) + 1, Min(to, Len(cs)))

substringFrom(cs, from) == SubSeq(cs, Min(from, Len(cs)) + 1, Len(cs))

RECURSIVE TrimStartIdx(_, _)
TrimStartIdx(cs, i) ==
  IF i <= Len(cs) /\ cs[i] \in SPACE THEN TrimStartIdx(cs, i + 1) ELSE i

RECURSIVE TrimEndIdx(_, _)
TrimEndIdx(cs, j) ==
  IF j >= 1 /\ cs[j] \in SPACE THEN TrimEndIdx(cs, j - 1) ELSE j

trim(cs) == SubSeq(cs, TrimStartIdx(cs, 1), TrimEndIdx(cs, Len(cs)))

startsWith(cs, p) == Len(p) <= Len(cs) /\ SubSeq(cs, 1, Len(p)) = p

endsWith(cs, p) ==
  Len(p) <= Len(cs) /\ SubSeq(cs, Len(cs) - Len(p) + 1, Len(cs)) = p

\* String.prototype.indexOf, 1-based; 0 when absent
IndexOf(cs, p) ==
  LET at == {i \in 1..(Len(cs) - Len(p) + 1) : cs[i] = p[1] /\ SubSeq(cs, i, i + Len(p) - 1) = p}
  IN IF Len(p) = 0 THEN 1 ELSE IF at = {} THEN 0 ELSE SetMin(at)

includes(cs, p) == IndexOf(cs, p) # 0

Repeat(c, n) == IF n <= 0 THEN <<>> ELSE [i \in 1..n |-> c]

padEnd(cs, n, c) == cs \o Repeat(c, n - Len(cs))
padStart(cs, n, c) == Repeat(c, n - Len(cs)) \o cs

(***************************************************************************)
(* Regular expressions.  A pattern is a sequence of items; the matcher     *)
(* returns, for every item, the end positions it can reach in the order a  *)
(* backtracking engine tries them, so the first complete path is the match *)
(* JavaScript reports.  Capturing groups stand at the top level of a       *)
(* pattern.                                                                *)
(***************************************************************************)
Lit(str) == [t |-> "lit", v |-> Chars(str)]
Rep(set, min, max) == [t |-> "cls", set |-> set, neg |-> FALSE, min |-> min, max |-> max, lazy |-> FALSE]
RepLazy(set, min, max) == [t |-> "cls", set |-> set, neg |-> FALSE, min |-> min, max |-> max, lazy |-> TRUE]
RepNot(set, min, max) == [t |-> "cls", set |-> set, neg |-> TRUE, min |-> min, max |-> max, lazy |-> FALSE]
RepNotLazy(set, min, max) == [t |-> "cls", set |-> set, neg |-> TRUE, min |-> min, max |-> max, lazy |-> TRUE]
\* max = -1: no upper limit
Many(set, min) == Rep(set, min, -1)
ManyLazy(set, min) == RepLazy(set, min, -1)
ManyNot(set, min) == RepNot(set, min, -1)
ManyNotLazy(set, min) == RepNotLazy(set, min, -1)
One(set) == Rep(set, 1, 1)
AnyPlus == ManyNot(NEWLINE, 1)
AnyPlusLazy == ManyNotLazy(NEWLINE, 1)
Alt(alts) == [t |-> "alt", alts |-> alts]
Opt(body) == [t |-> "opt", body |-> body]
Grp(body) == [t |-> "grp", body |-> body]
Bol == [t |-> "bol"]
Eol == [t |-> "eol"]
EolM == [t |-> "eolm"]
Wb == [t |-> "wb"]

AnyChar == {"*any*"}

CaseVariants(set) == set \cup {UpperChar(c) : c \in set} \cup {LowerChar(c) : c \in set}

RECURSIVE FirstChars(_, _, _)
RECURSIVE FirstCharsAlt(_, _, _)
RECURSIVE FirstCharsItem(_, _, _)
\* the characters a match of items[k..] can begin with (AnyChar: no limit
\* known, or the match may be empty); used only to skip positions where no
\* match can start
FirstChars(items, k, ci) ==
  IF k > Len(items) THEN AnyChar
  ELSE FirstCharsItem(items[k], FirstChars(items, k + 1, ci), ci)

\* rest: the characters a match of the items after it can begin with
FirstCharsItem(it, rest, ci) ==
  CASE it.t = "lit" ->
         IF Len(it.v) = 0 THEN rest
         ELSE IF ci THEN CaseVariants({it.v[1]}) ELSE {it.v[1]}
    [] it.t = "cls" ->
         (IF it.neg THEN AnyChar ELSE IF ci THEN CaseVariants(it.set) ELSE it.set)
         \cup (IF it.min = 0 THEN rest ELSE {})
    [] it.t = "alt" -> FirstCharsAlt(it.alts, 1, ci)
    [] it.t = "opt" -> FirstChars(it.body, 1, ci) \cup rest
    [] it.t = "grp" -> FirstChars(it.body, 1, ci)
    [] OTHER -> rest

FirstCharsAlt(alts, a, ci) ==
  IF a > Len(alts) THEN {}
  ELSE FirstChars(alts[a], 1, ci) \cup FirstCharsAlt(alts, a + 1, ci)

\* lead: the pattern begins with an unlimited repetition of a class that may
\* be empty, so a start inside a run of that class can reach no end that the
\* start at the head of the run cannot reach
PatternOf(items, ci, first) ==
  [items |-> items, ci |-> ci, any |-> "*any*" \in first, first |-> first,
   lead |-> Len(items) > 0 /\ items[1].t = "cls" /\ items[1].min = 0 /\ items[1].max < 0]

Pattern(items, ci) == PatternOf(items, ci, FirstChars(items, 1, ci))

RE(items) == Pattern(items, FALSE)
REi(items) == Pattern(items, TRUE)

InClass(c, it, ci) ==
  it.neg # (IF ci THEN (c \in it.set \/ UpperChar(c) \in it.set \/ LowerChar(c) \in it.set)
                  ELSE c \in it.set)

RECURSIVE FirstStop(_, _, _, _, _)
RECURSIVE FirstStopRight(_, _, _, _, _, _)
\* the first position of lo..hi whose character is outside the class, else hi + 1;
\* the range is searched by halves, the left half first
FirstStop(it, cs, ci, lo, hi) ==
  IF lo > hi THEN lo
  ELSE IF lo = hi THEN (IF InClass(cs[lo], it, ci) THEN lo + 1 ELSE lo)
  ELSE FirstStopRight(it, cs, ci, (lo + hi) \div 2, hi,
                      FirstStop(it, cs, ci, lo, (lo + hi) \div 2))

\* left: the answer for the left half lo..mid
FirstStopRight(it, cs, ci, mid, hi, left) ==
  IF left <= mid THEN left ELSE FirstStop(it, cs, ci, mid + 1, hi)

\* the length of the longest run of class characters from position i, at most it.max
RunLen(it, cs, i, ci) ==
  FirstStop(it, cs, ci, i, IF it.max < 0 THEN Len(cs) ELSE Min(Len(cs), i + it.max - 1)) - i

\* the ends of a repetition whose longest run from i has length run: the
\* longest first, or the shortest first for a lazy repetition
EndsRun(it, i, run) ==
  IF run < it.min THEN <<>>
  ELSE IF it.lazy THEN [j \in 1..(run - it.min + 1) |-> i + it.min + (j - 1)]
  ELSE [j \in 1..(run - it.min + 1) |-> i + run - (j - 1)]

LitAt(v, cs, i, ci) ==
  /\ i + Len(v) - 1 <= Len(cs)
  /\ \A j \in 1..Len(v) :
       IF ci THEN LowerChar(cs[i + j - 1]) = LowerChar(v[j]) ELSE cs[i + j - 1] = v[j]

IsWordAt(cs, i) == i >= 1 /\ i <= Len(cs) /\ cs[i] \in WORDCH

RECURSIVE EndsSeq(_, _, _, _, _)
RECURSIVE EndsItem(_, _, _, _)
RECURSIVE EndsAlt(_, _, _, _, _, _)
RECURSIVE EndsNext(_, _, _, _, _, _, _)
RECURSIVE EndsAll(_, _, _, _, _)

EndsItem(it, cs, i, ci) ==
  CASE it.t = "lit" -> IF LitAt(it.v, cs, i, ci) THEN <<i + Len(it.v)>> ELSE <<>>
    [] it.t = "cls" -> EndsRun(it, i, RunLen(it, cs, i, ci))
    [] it.t = "alt" -> EndsAlt(it.alts, 1, Len(it.alts), cs, i, ci)
    [] it.t = "opt" -> EndsSeq(it.body, 1, cs, i, ci) \o <<i>>
    [] it.t = "grp" -> EndsSeq(it.body, 1, cs, i, ci)
    [] it.t = "bol" -> IF i = 1 THEN <<i>> ELSE <<>>
    [] it.t = "eol" -> IF i = Len(cs) + 1 THEN <<i>> ELSE <<>>
    [] it.t = "eolm" -> IF i = Len(cs) + 1 \/ cs[i] \in NEWLINE THEN <<i>> ELSE <<>>
    [] it.t = "wb" -> IF IsWordAt(cs, i - 1) # IsWordAt(cs, i) THEN <<i>> ELSE <<>>

\* the ends of the alternatives alts[lo..hi], in the order of the alternatives
EndsAlt(alts, lo, hi, cs, i, ci) ==
  IF lo > hi THEN <<>>
  ELSE IF lo = hi THEN EndsSeq(alts[lo], 1, cs, i, ci)
  ELSE EndsAlt(alts, lo, (lo + hi) \div 2, cs, i, ci)
       \o EndsAlt(alts, (lo + hi) \div 2 + 1, hi, cs, i, ci)

\* the ends of items[k..] started at each of the candidate positions es[lo..hi]
EndsNext(items, k, cs, es, lo, hi, ci) ==
  IF lo > hi THEN <<>>
  ELSE IF lo = hi THEN EndsSeq(items, k, cs, es[lo], ci)
  ELSE EndsNext(items, k, cs, es, lo, (lo + hi) \div 2, ci)
       \o EndsNext(items, k, cs, es, (lo + hi) \div 2 + 1, hi, ci)

EndsSeq(items, k, cs, i, ci) ==
  IF k > Len(items) THEN <<i>>
  ELSE IF k = Len(items) THEN EndsItem(items[k], cs, i, ci)
  ELSE EndsAll(items, k + 1, cs, EndsItem(items[k], cs, i, ci), ci)

\* the ends of items[k..] started at each of the candidate positions es
EndsAll(items, k, cs, es, ci) == EndsNext(items, k, cs, es, 1, Len(es), ci)

NoMatch == [ok |-> FALSE]

RECURSIVE RunFrom(_, _, _, _, _, _)
RECURSIVE RunFirst(_, _, _, _, _, _, _, _, _)
RECURSIVE RunEnds(_, _, _, _, _, _, _)
RECURSIVE RunSecond(_, _, _, _, _, _, _, _, _, _)

\* the first complete path through items[k..] from position i; caps collects
\* the <<start, end>> of every capturing group passed
RunFrom(items, k, cs, i, ci, caps) ==
  IF k > Len(items) THEN [ok |-> TRUE, end |-> i, caps |-> caps]
  ELSE RunEnds(items, k, cs, i, ci, caps, EndsItem(items[k], cs, i, ci))

\* es: the candidate ends of items[k] from position i
RunEnds(items, k, cs, i, ci, caps, es) ==
  RunFirst(items, k, cs, i, ci, caps, es, 1, Len(es))

\* the first of the candidate ends es[lo..hi] of items[k] from which the rest completes
RunFirst(items, k, cs, i, ci, caps, es, lo, hi) ==
  IF lo > hi THEN NoMatch
  ELSE IF lo = hi
       THEN RunFrom(items, k + 1, cs, es[lo], ci,
                    IF items[k].t = "grp" THEN Append(caps, <<i, es[lo]>>) ELSE caps)
  ELSE RunSecond(items, k, cs, i, ci, caps, es, (lo + hi) \div 2, hi,
                 RunFirst(items, k, cs, i, ci, caps, es, lo, (lo + hi) \div 2))

\* left: the answer for the candidates es[lo..mid]
RunSecond(items, k, cs, i, ci, caps, es, mid, hi, left) ==
  IF left.ok THEN left ELSE RunFirst(items, k, cs, i, ci, caps, es, mid + 1, hi)

\* a match can start at j: the prefilter on the first character, and for a
\* pattern with a leading repetition only the head of a run of its class
CanStart(re, cs, i, j) ==
  /\ re.any \/ (j <= Len(cs) /\ cs[j] \in re.first)
  /\ re.lead => (j = i \/ ~InClass(cs[j - 1], re.items[1], re.ci))

\* the match that starts at lo, from the path r found there
MatchAt(lo, r) ==
  IF r.ok THEN [ok |-> TRUE, start |-> lo, end |-> r.end, caps |-> r.caps] ELSE NoMatch

RECURSIVE SearchIn(_, _, _, _, _)
RECURSIVE SearchRight(_, _, _, _, _, _)
\* the leftmost match that starts in lo..hi, for a search begun at position i
SearchIn(re, cs, i, lo, hi) ==
  IF lo > hi THEN NoMatch
  ELSE IF lo = hi
       THEN (IF ~CanStart(re, cs, i, lo) THEN NoMatch
             ELSE MatchAt(lo, RunFrom(re.items, 1, cs, lo, re.ci, <<>>)))
  ELSE SearchRight(re, cs, i, (lo + hi) \div 2, hi, SearchIn(re, cs, i, lo, (lo + hi) \div 2))

\* left: the answer for the starts lo..mid
SearchRight(re, cs, i, mid, hi, left) ==
  IF left.ok THEN left ELSE SearchIn(re, cs, i, mid + 1, hi)

\* RegExp.prototype.exec from position i: the leftmost match
SearchFrom(re, cs, i) == SearchIn(re, cs, i, i, Len(cs) + 1)

\* String.prototype.match without the g flag
match(cs, re) == SearchFrom(re, cs, 1)

test(re, cs) == match(cs, re).ok

\* the text of capturing group n of a match
Group(cs, m, n) == SubSeq(cs, m.caps[n][1], m.caps[n][2] - 1)

Whole(cs, m) == SubSeq(cs, m.start, m.end - 1)

RECURSIVE MatchAllFrom(_, _, _)
RECURSIVE MatchAllNext(_, _, _)
\* String.prototype.match with the g flag / matchAll: the matched texts
MatchAllFrom(re, cs, i) == MatchAllNext(re, cs, SearchFrom(re, cs, i))

\* m: the first match of the search; the search resumes after it
MatchAllNext(re, cs, m) ==
  IF ~m.ok THEN <<>>
  ELSE <<Whole(cs, m)>> \o MatchAllFrom(re, cs, IF m.end > m.start THEN m.end ELSE m.end + 1)

matchAll(cs, re) == MatchAllFrom(re, cs, 1)

\* a replacement template: literal pieces and group references
TLit(str) == [lit |-> Chars(str)]
TGrp(n) == [grp |-> n]

RECURSIVE Expand(_, _, _, _)
Expand(tmpl, p, cs, m) ==
  IF p > Len(tmpl) THEN <<>>
  ELSE (IF "lit" \in DOMAIN tmpl[p] THEN tmpl[p].lit ELSE Group(cs, m, tmpl[p].grp))
       \o Expand(tmpl, p + 1, cs, m)

RECURSIVE ReplaceAllFrom(_, _, _, _)
RECURSIVE ReplaceAllNext(_, _, _, _, _)
ReplaceAllFrom(re, cs, tmpl, i) == ReplaceAllNext(re, cs, tmpl, i, SearchFrom(re, cs, i))

\* m: the first match from position i
ReplaceAllNext(re, cs, tmpl, i, m) ==
  IF ~m.ok THEN SubSeq(cs, i, Len(cs))
  ELSE SubSeq(cs, i, m.start - 1) \o Expand(tmpl, 1, cs, m)
       \o (IF m.end > m.start THEN ReplaceAllFrom(re, cs, tmpl, m.end)
           ELSE IF m.end <= Len(cs) THEN <<cs[m.end]>> \o ReplaceAllFrom(re, cs, tmpl, m.end + 1)
           ELSE <<>>)

\* String.prototype.replace with a g-flagged pattern
replaceAll(cs, re, tmpl) == ReplaceAllFrom(re, cs, tmpl, 1)

\* String.prototype.replace with a pattern without the g flag
Replaced(cs, tmpl, m) ==
  IF ~m.ok THEN cs
  ELSE SubSeq(cs, 1, m.start - 1) \o Expand(tmpl, 1, cs, m) \o SubSeq(cs, m.end, Len(cs))

replaceFirst(cs, re, tmpl) == Replaced(cs, tmpl, match(cs, re))

RECURSIVE SplitFrom(_, _, _)
RECURSIVE SplitNext(_, _, _, _)
\* String.prototype.split with a pattern separator
SplitFrom(re, cs, i) == SplitNext(re, cs, i, SearchFrom(re, cs, i))

\* m: the first separator from position i
SplitNext(re, cs, i, m) ==
  IF ~m.ok \/ m.start > Len(cs) THEN <<SubSeq(cs, i, Len(cs))>>
  ELSE <<SubSeq(cs, i, m.start - 1)>> \o SplitFrom(re, cs, m.end)

split(cs, re) == SplitFrom(re, cs, 1)

(***************************************************************************)
(* Field values: null is None, a string s is Some(s).                      *)
(***************************************************************************)
None == <<>>
Some(cs) == <<Str(cs)>>
\* JavaScript truthiness of a field value: neither null nor ""
Truthy(v) == v # None /\ v # <<"">>

WS1 == Many(SPACE, 1)
WS0 == Many(SPACE, 0)
LabelSep1 == Many(SPACE \cup {":"}, 1)
LabelSep0 == Many(SPACE \cup {":"}, 0)
DotSlash == {".", "/"}

\* text.replace(/\s+/g, " ").trim()
normalize(text) == trim(replaceAll(text, RE(<<WS1>>), <<TLit(" ")>>))

lineBreak == RE(<<Alt(<< <<Lit("\n")>>, <<Lit("\r"), Rep({"\n"}, 0, 1)>> >>)>>)

\* text.split(/\n|\r\n?/).map(trim).filter(nonempty)
nonEmptyLines(text) ==
  LET allLines == split(text, lineBreak)
      trimmed == [i \in 1..Len(allLines) |-> trim(allLines[i])]
  IN SelectSeq(trimmed, LAMBDA l : Len(l) > 0)

\* the thirteen digits left without dashes
formatCnicUndashed(cnic) == cnic

\* `${cnic.substring(0, 5)}-${cnic.substring(5, 12)}-${cnic.substring(12)}`
formatCnic(cnic) ==
  substring(cnic, 0, 5) \o <<"-">> \o substring(cnic, 5, 12) \o <<"-">> \o substringFrom(cnic, 12)

stripSpacesAndDashes(cs) == SelectSeq(cs, LAMBDA c : c \notin SPACE /\ c # "-")

(***************************************************************************)
(* DataExtractor.extractCNICData                                           *)
(***************************************************************************)
numericDate == <<Rep(DIGIT, 1, 2), One(DotSlash), Rep(DIGIT, 1, 2), One(DotSlash), Rep(DIGIT, 4, 4)>>

cnicPattern ==
  RE(<<Grp(<<Rep(DIGIT, 5, 5), Rep({"-"}, 0, 1), Rep(SPACE, 0, 1), Rep(DIGIT, 7, 7),
            Rep({"-"}, 0, 1), Rep(SPACE, 0, 1), Rep(DIGIT, 1, 1)>>)>>)

datePattern == RE(<<Grp(numericDate)>>)

dobPattern ==
  REi(<<Alt(<< <<Lit("DOB")>>, <<Lit("Date"), WS1, Lit("of"), WS1, Lit("Birth")>>, <<Lit("Birth")>> >>),
        LabelSep0, Grp(numericDate)>>)

issuePattern ==
  REi(<<Alt(<< <<Lit("DOI")>>, <<Lit("Date"), WS1, Lit("of"), WS1, Lit("Issue")>>, <<Lit("Issue")>> >>),
        LabelSep0, Grp(numericDate)>>)

expiryPattern ==
  REi(<<Alt(<< <<Lit("DOE")>>, <<Lit("Date"), WS1, Lit("of"), WS1, Lit("Expiry")>>, <<Lit("Expiry")>>,
              <<Lit("Valid"), WS1, Lit("Until")>> >>),
        LabelSep0, Grp(numericDate)>>)

genderPattern ==
  REi(<<Wb, Grp(<<Alt(<< <<Lit("MALE")>>, <<Lit("FEMALE")>>, <<Lit("M")>>, <<Lit("F")>> >>)>>), Wb>>)

cnicNumberOf(normalizedText) ==
  LET cnicMatch == match(normalizedText, cnicPattern)
  IN IF cnicMatch.ok
     THEN LET cnic == stripSpacesAndDashes(Group(normalizedText, cnicMatch, 1))
          IN IF Len(cnic) = 13 THEN Some(formatCnic(cnic))
             ELSE Some(Group(normalizedText, cnicMatch, 1))
     ELSE None

\* the first date taken whatever the ordinal position asked for
cnicDateAlwaysFirst(normalizedText, dates, pattern, ordinal) ==
  LET m == match(normalizedText, pattern)
  IN IF m.ok THEN Some(Group(normalizedText, m, 1))
     ELSE IF Len(dates) >= ordinal THEN Some(dates[1])
     ELSE None

\* a labelled match wins, else the date at the given ordinal position
cnicDate(normalizedText, dates, pattern, ordinal) ==
  LET m == match(normalizedText, pattern)
  IN IF m.ok THEN Some(Group(normalizedText, m, 1))
     ELSE IF Len(dates) >= ordinal THEN Some(dates[ordinal])
     ELSE None

genderOf(normalizedText) ==
  LET genderMatch == match(normalizedText, genderPattern)
  IN IF genderMatch.ok THEN Some(toUpperCase(Group(normalizedText, genderMatch, 1))) ELSE None

(***************************************************************************)
(* DataExtractor.extractPassportData: one label-anchored scan per field,   *)
(* then the field's fallbacks.  Every block reads and writes only its own  *)
(* field, so each is an operator from the field's value so far (cur, the   *)
(* MRZ value if any) to its value after the block.                         *)
(***************************************************************************)
hasDigit(cs) == \E i \in 1..Len(cs) : cs[i] \in DIGIT
startsWithDigit(cs) == Len(cs) > 0 /\ cs[1] \in DIGIT
collapseSpaces(cs) == replaceAll(cs, RE(<<WS1>>), <<TLit(" ")>>)
identity(cs) == cs
wordCount(cs) == Len(split(cs, RE(<<WS1>>)))

Miss == [hit |-> FALSE]
Hit(v) == [hit |-> TRUE, v |-> v]

\* the value of the hit, else the field's value so far
hitOr(r, cur) == IF r.hit THEN r.v ELSE cur

\* a for-loop over the lines that stops (break) at the first line producing a value
firstHit(n, Cand(_)) ==
  LET cands == [i \in 1..n |-> Cand(i)]
      hits == {i \in 1..n : cands[i].hit}
  IN IF hits = {} THEN Miss ELSE cands[SetMin(hits)]

\* the label loop shared by every field: on a line carrying the label, the
\* value after the label on the same line, else (only while the field is
\* still empty) the following line
labelCandidate(lines, i, cur, IsLabel(_), sameLinePattern, Prep(_), Accept1(_), Accept2(_), Out(_)) ==
  IF ~IsLabel(toUpperCase(lines[i])) THEN Miss
  ELSE LET sameLineMatch == match(lines[i], sameLinePattern)
           v1 == Prep(trim(Group(lines[i], sameLineMatch, 1)))
           v2 == Prep(trim(lines[i + 1]))
       IN IF sameLineMatch.ok /\ Accept1(v1) THEN Hit(Some(Out(v1)))
          ELSE IF ~Truthy(cur) /\ i + 1 <= Len(lines) /\ Accept2(v2) THEN Hit(Some(Out(v2)))
          ELSE Miss

labelScan(lines, cur, IsLabel(_), sameLinePattern, Prep(_), Accept1(_), Accept2(_), Out(_)) ==
  LET r == firstHit(Len(lines),
                    LAMBDA i : labelCandidate(lines, i, cur, IsLabel, sameLinePattern,
                                              Prep, Accept1, Accept2, Out))
  IN IF r.hit THEN r.v ELSE cur

sameLine(labelItems) == REi(labelItems \o <<LabelSep1, Grp(<<AnyPlus>>), Eol>>)

\* ---- passportNumber ----
passportNumberSameLine == sameLine(<<Lit("Passport"), WS1, Lit("Number")>>)

upperAlnumOnly == RE(<<Bol, Many(UPPER \cup DIGIT, 1), Eol>>)

passportPattern ==
  REi(<<Alt(<< <<Lit("Passport")>>, <<Lit("P"), WS0, Lit("No")>>, <<Lit("Passport"), WS0, Lit("No")>> >>),
        LabelSep0, Grp(<<Rep(UPPER \cup DIGIT, 6, 12)>>)>>)

passportLinePattern == RE(<<Wb, Grp(<<Rep(UPPER, 2, 2), Rep(DIGIT, 7, 8)>>), Wb>>)

passportNumberLabel(lines, cur) ==
  labelScan(lines, cur,
            LAMBDA u : includes(u, Chars("PASSPORT")) /\ includes(u, Chars("NUMBER")),
            passportNumberSameLine, identity,
            LAMBDA v : Len(v) >= 6 /\ Len(v) <= 12,
            LAMBDA v : Len(v) >= 6 /\ Len(v) <= 12 /\ test(upperAlnumOnly, v),
            toUpperCase)

passportNumberFallback(lines, normalizedText, cur) ==
  IF Truthy(cur) THEN cur
  ELSE LET passportMatch == match(normalizedText, passportPattern)
           r == firstHit(Len(lines),
                         LAMBDA i : LET m == match(lines[i], passportLinePattern)
                                    IN IF m.ok THEN Hit(Some(toUpperCase(Group(lines[i], m, 1))))
                                       ELSE Miss)
       IN IF passportMatch.ok THEN Some(toUpperCase(Group(normalizedText, passportMatch, 1)))
          ELSE IF r.hit THEN r.v
          ELSE cur

\* ---- dateOfBirth, dateOfExpiry ----
MonthNames == <<"JAN", "FEB", "MAR", "APR", "MAY", "JUN", "JUL", "AUG", "SEP", "OCT", "NOV", "DEC">>
monthAlt == Alt([i \in 1..Len(MonthNames) |-> <<Lit(MonthNames[i])>>])
monthDate == <<Rep(DIGIT, 1, 2), WS1, monthAlt, WS1, Rep(DIGIT, 4, 4)>>
dayGroup == Grp(<<Alt(<< <<Rep(DIGIT, 1, 2)>>, <<Rep(LOWER, 2, 2)>> >>)>>)

dobLinePattern ==
  REi(<<Opt(<<Rep({"-"}, 0, 1), WS0>>), dayGroup, WS1, Grp(<<monthAlt>>), WS1, Grp(<<Rep(DIGIT, 4, 4)>>)>>)

expiryLinePattern ==
  REi(<<ManyNotLazy(DIGIT, 0), dayGroup, WS1, Grp(<<monthAlt>>), WS1, Grp(<<Rep(DIGIT, 4, 4)>>)>>)

dashedCnic == RE(<<Rep(DIGIT, 5, 5), Lit("-"), Rep(DIGIT, 7, 7), Lit("-"), Rep(DIGIT, 1, 1)>>)
thirteenDigits == RE(<<Rep(DIGIT, 13, 13)>>)
tenToTwelveDigits == RE(<<Rep(DIGIT, 10, 12)>>)
oneOrTwoDigitsOnly == RE(<<Bol, Rep(DIGIT, 1, 2), Eol>>)

\* the repair of a misread day ("lo" for "10") and its padding to two digits
fixDay(dayText, default) ==
  LET dayLower == Str(toLowerCase(dayText))
      d1 == IF dayLower \in {"lo", "io", "1o"} THEN Chars("10") ELSE dayText
      d2 == IF dayLower \in {"o1", "01"} THEN Chars("01") ELSE d1
      d3 == IF dayLower \in {"o2", "02"} THEN Chars("02") ELSE d2
      digitMatch == match(d3, RE(<<One(DIGIT)>>))
      d4 == IF test(oneOrTwoDigitsOnly, d3) THEN d3
            ELSE IF digitMatch.ok THEN padStart(Whole(d3, digitMatch), 2, "0")
            ELSE Chars(default)
  IN padStart(d4, 2, "0")

lineDate(line, m, default) ==
  fixDay(Group(line, m, 1), default) \o <<" ">> \o toUpperCase(Group(line, m, 2))
    \o <<" ">> \o Group(line, m, 3)

dateOfBirthSameLine == sameLine(<<Lit("Date"), WS1, Lit("of"), WS1, Lit("Birth")>>)
dateOfExpirySameLine == sameLine(<<Lit("Date"), WS1, Lit("of"), WS1, Lit("Expiry")>>)

dateOfBirthLabel(lines, cur) ==
  labelScan(lines, cur,
            LAMBDA u : includes(u, Chars("DATE")) /\ includes(u, Chars("BIRTH")),
            dateOfBirthSameLine, identity, hasDigit, hasDigit, toUpperCase)

dateOfBirthLine(lines, cur) ==
  IF Truthy(cur) THEN cur
  ELSE LET r == firstHit(Len(lines),
                         LAMBDA i : LET dateMatch == match(lines[i], dobLinePattern)
                                    IN IF /\ dateMatch.ok
                                          /\ (test(dashedCnic, lines[i]) \/ test(thirteenDigits, lines[i]))
                                       THEN Hit(Some(lineDate(lines[i], dateMatch, "10")))
                                       ELSE Miss)
       IN IF r.hit THEN r.v ELSE cur

dateOfExpiryLabel(lines, cur) ==
  labelScan(lines, cur,
            LAMBDA u : includes(u, Chars("DATE"))
                       /\ (includes(u, Chars("EXPIRY")) \/ includes(u, Chars("EXPIR"))),
            dateOfExpirySameLine, identity, hasDigit, hasDigit, toUpperCase)

dateOfExpiryLine(lines, cur) ==
  IF Truthy(cur) THEN cur
  ELSE LET r == firstHit(Len(lines),
                         LAMBDA i : LET dateMatch == match(lines[i], expiryLinePattern)
                                    IN IF /\ dateMatch.ok
                                          /\ ~includes(toUpperCase(lines[i]), Chars("BIRTH"))
                                          /\ test(tenToTwelveDigits, lines[i])
                                       THEN Hit(Some(lineDate(lines[i], dateMatch, "01")))
                                       ELSE Miss)
       IN IF r.hit THEN r.v ELSE cur

datePatterns == <<REi(<<Grp(monthDate)>>), RE(<<Grp(numericDate)>>)>>

dobLabels == Alt(<< <<Lit("DOB")>>, <<Lit("Date"), WS1, Lit("of"), WS1, Lit("Birth")>>, <<Lit("Birth")>> >>)

expiryLabels ==
  Alt(<< <<Lit("DOE")>>, <<Lit("Date"), WS1, Lit("of"), WS1, Lit("Expiry")>>, <<Lit("Expiry")>>,
         <<Lit("Valid"), WS1, Lit("Until")>> >>)

dobPatterns ==
  <<REi(<<dobLabels, LabelSep0, Grp(monthDate)>>), REi(<<dobLabels, LabelSep0, Grp(numericDate)>>)>>

expiryPatterns ==
  <<REi(<<expiryLabels, LabelSep0, Grp(monthDate)>>), REi(<<expiryLabels, LabelSep0, Grp(numericDate)>>)>>

\* every month-name date of the text, then every numeric date
passportDates(normalizedText) ==
  matchAll(normalizedText, datePatterns[1]) \o matchAll(normalizedText, datePatterns[2])

\* the unlabelled date taken one position later
datesFallbackOneLater(normalizedText, cur, patterns, ordinal) ==
  IF Truthy(cur) THEN cur
  ELSE LET m1 == match(normalizedText, patterns[1])
           m2 == match(normalizedText, patterns[2])
           dates == passportDates(normalizedText)
       IN IF m1.ok THEN Some(trim(Group(normalizedText, m1, 1)))
          ELSE IF m2.ok THEN Some(trim(Group(normalizedText, m2, 1)))
          ELSE IF Len(dates) >= ordinal + 1 THEN Some(dates[ordinal + 1])
          ELSE cur

\* a labelled date wins, else the date at the given ordinal position
datesFallback(normalizedText, cur, patterns, ordinal) ==
  IF Truthy(cur) THEN cur
  ELSE LET m1 == match(normalizedText, patterns[1])
           m2 == match(normalizedText, patterns[2])
           dates == passportDates(normalizedText)
       IN IF m1.ok THEN Some(trim(Group(normalizedText, m1, 1)))
          ELSE IF m2.ok THEN Some(trim(Group(normalizedText, m2, 1)))
          ELSE IF Len(dates) >= ordinal THEN Some(dates[ordinal])
          ELSE cur

\* ---- gender ----
passportGender(normalizedText, cur) ==
  LET genderMatch == match(normalizedText, genderPattern)
  IN IF genderMatch.ok THEN Some(toUpperCase(Group(normalizedText, genderMatch, 1))) ELSE cur

\* ---- nationality ----
nationalitySameLine == sameLine(<<Lit("Nationality")>>)

nationalityLabel(lines, cur) ==
  labelScan(lines, cur,
            LAMBDA u : includes(u, Chars("NATIONALITY")) /\ ~includes(u, Chars("NUMBER")),
            nationalitySameLine, identity,
            LAMBDA v : Len(v) >= 3,
            LAMBDA v : Len(v) >= 3 /\ ~startsWithDigit(v),
            toUpperCase)

nationalityFallback(lines, cur) ==
  IF Truthy(cur) THEN cur
  ELSE IF \E i \in 1..Len(lines) : includes(toUpperCase(lines[i]), Chars("PAKISTANI"))
       THEN Some(Chars("PAKISTANI"))
  ELSE cur

\* ---- surname ----
surnameSameLine == sameLine(<<Opt(<<Lit("Sur"), WS0>>), Lit("Name")>>)

\* what the surname label loop finds on line i alone
surnameAt(lines, i, cur) ==
  labelCandidate(lines, i, cur,
                 LAMBDA u : (includes(u, Chars("SURNAME")) \/ includes(u, Chars("SUR NAME")))
                            /\ ~includes(u, Chars("GIVEN")),
                 surnameSameLine, identity,
                 LAMBDA v : Len(v) >= 2 /\ ~startsWithDigit(v),
                 LAMBDA v : Len(v) >= 2 /\ ~startsWithDigit(v)
                            /\ ~includes(toUpperCase(v), Chars("GIVEN")),
                 toUpperCase)

surnameLabel(lines, cur) ==
  labelScan(lines, cur,
            LAMBDA u : (includes(u, Chars("SURNAME")) \/ includes(u, Chars("SUR NAME")))
                       /\ ~includes(u, Chars("GIVEN")),
            surnameSameLine, identity,
            LAMBDA v : Len(v) >= 2 /\ ~startsWithDigit(v),
            LAMBDA v : Len(v) >= 2 /\ ~startsWithDigit(v)
                       /\ ~includes(toUpperCase(v), Chars("GIVEN")),
            toUpperCase)

\* ---- givenNames ----
\* the label read without its plural: /Given\s+Name[:\s]+(.+)$/i
givenNameSameLineSingular == sameLine(<<Lit("Given"), WS1, Lit("Name")>>)

givenNamesSameLine == sameLine(<<Lit("Given"), WS1, Lit("Name"), Rep({"s"}, 0, 1)>>)

passportNamePattern == REi(<<Lit("PASSPORT"), WS1, Grp(<<Rep(UPPER \cup SPACE, 3, 40)>>)>>)
trailingLetter == REi(<<WS1, One(LOWER), WS0, Eol>>)
trailingTwoLetters == REi(<<WS1, One(LOWER), WS1, One(LOWER), WS0, Eol>>)

givenNamesLabel(lines, cur) ==
  labelScan(lines, cur,
            LAMBDA u : includes(u, Chars("GIVEN")) /\ includes(u, Chars("NAME")),
            givenNamesSameLine, collapseSpaces,
            LAMBDA v : Len(v) >= 2 /\ ~startsWithDigit(v),
            LAMBDA v : Len(v) >= 2 /\ ~startsWithDigit(v)
                       /\ ~includes(toUpperCase(v), Chars("NATIONALITY")),
            toUpperCase)

givenNamesCandidate(line) ==
  LET lineUpper == toUpperCase(line)
      nameMatch == match(line, passportNamePattern)
      g1 == trim(Group(line, nameMatch, 1))
      g2 == trim(replaceFirst(g1, trailingLetter, <<>>))
      g3 == trim(replaceFirst(g2, trailingTwoLetters, <<>>))
      givenNames == collapseSpaces(g3)
  IN IF /\ includes(lineUpper, Chars("PASSPORT"))
        /\ ~includes(lineUpper, Chars("NUMBER"))
        /\ nameMatch.ok
        /\ Len(Group(line, nameMatch, 1)) > 0
        /\ Len(givenNames) >= 3
        /\ ~includes(toUpperCase(givenNames), Chars("PAKISTAN"))
        /\ ~includes(toUpperCase(givenNames), Chars("NUMBER"))
        /\ wordCount(givenNames) >= 1
        /\ wordCount(givenNames) <= 4
     THEN Hit(Some(toUpperCase(givenNames)))
     ELSE Miss

givenNamesFallback(lines, cur) ==
  IF Truthy(cur) THEN cur
  ELSE LET r == firstHit(Len(lines), LAMBDA i : givenNamesCandidate(lines[i]))
       IN IF r.hit THEN r.v ELSE cur

\* ---- placeOfBirth ----
placeOfBirthSameLine == sameLine(<<Lit("Place"), WS1, Lit("of"), WS1, Lit("Birth")>>)

placePattern == REi(<<Grp(<<Rep(UPPER \cup SPACE, 3, 20)>>), Lit(","), WS0, Lit("PAK")>>)

placeOfBirthLabel(lines, cur) ==
  labelScan(lines, cur,
            LAMBDA u : includes(u, Chars("PLACE")) /\ includes(u, Chars("BIRTH")),
            placeOfBirthSameLine, identity,
            LAMBDA v : Len(v) >= 3, LAMBDA v : Len(v) >= 3, toUpperCase)

placeCandidate(line) ==
  LET placeMatch == match(line, placePattern)
      place == replaceFirst(trim(Group(line, placeMatch, 1)), REi(<<Lit("Fy"), WS1>>), <<>>)
  IN IF placeMatch.ok /\ Len(place) >= 3 /\ Len(place) <= 30
     THEN Hit(Some(toUpperCase(place) \o Chars(", PAK")))
     ELSE Miss

placeOfBirthFallback(lines, cur) ==
  IF Truthy(cur) THEN cur
  ELSE LET r == firstHit(Len(lines), LAMBDA i : placeCandidate(lines[i]))
       IN IF r.hit THEN r.v ELSE cur

\* ---- fatherName ----
fatherNameSameLine == sameLine(<<Lit("Father"), WS1, Lit("Name")>>)

commaNameLine == RE(<<Bol, One(UPPER), Rep(UPPER \cup SPACE \cup {","}, 5, 40), Eol>>)
leadingLetter == REi(<<Bol, One(LOWER), WS1>>)
leadingShortWord == REi(<<Bol, Rep(LOWER, 1, 2), WS1>>)

commaCount(cs) == Len(SelectSeq(cs, LAMBDA c : c = ","))

passportFatherNameLabel(lines, cur) ==
  labelScan(lines, cur,
            LAMBDA u : (includes(u, Chars("FATHER")) /\ includes(u, Chars("NAME")))
                       \/ (includes(u, Chars("FATHER")) /\ ~includes(u, Chars("HUSBAND"))),
            fatherNameSameLine, collapseSpaces,
            LAMBDA v : Len(v) >= 2 /\ ~startsWithDigit(v),
            LAMBDA v : Len(v) >= 2 /\ ~startsWithDigit(v),
            toUpperCase)

fatherNameCandidate(line) ==
  LET lineUpper == toUpperCase(line)
      f1 == trim(replaceFirst(line, leadingLetter, <<>>))
      f2 == trim(replaceFirst(f1, leadingShortWord, <<>>))
      fatherName == collapseSpaces(f2)
  IN IF /\ commaCount(line) = 1
        /\ test(commaNameLine, line)
        /\ ~includes(lineUpper, Chars("PAKISTAN"))
        /\ ~includes(lineUpper, Chars("SIALKOT"))
        /\ ~includes(lineUpper, Chars("LAHORE"))
        /\ ~includes(lineUpper, Chars("KARACHI"))
        /\ commaCount(fatherName) >= 1
        /\ Len(fatherName) >= 5
        /\ Len(fatherName) <= 50
     THEN Hit(Some(toUpperCase(fatherName)))
     ELSE Miss

passportFatherNameFallback(lines, cur) ==
  IF Truthy(cur) THEN cur
  ELSE LET r == firstHit(Len(lines), LAMBDA i : fatherNameCandidate(lines[i]))
       IN IF r.hit THEN r.v ELSE cur

\* ---- dateOfIssue ----
dateOfIssueSameLine ==
  sameLine(<<Lit("Date"), WS1, Lit("of"), WS1, Alt(<< <<Lit("Issue")>>, <<Lit("Issuance")>> >>)>>)

passportIssuePattern ==
  REi(<<Alt(<< <<Lit("DOI")>>, <<Lit("Date"), WS1, Lit("of"), WS1, Lit("Issue")>>,
              <<Lit("Date"), WS1, Lit("of"), WS1, Lit("Issuance")>>, <<Lit("Issue")>> >>),
        LabelSep0, Grp(monthDate)>>)

dateOfIssueLabel(lines, cur) ==
  labelScan(lines, cur,
            LAMBDA u : (includes(u, Chars("DATE")) /\ includes(u, Chars("ISSUE")))
                       \/ (includes(u, Chars("DATE")) /\ includes(u, Chars("ISSUANCE"))),
            dateOfIssueSameLine, identity, hasDigit, hasDigit, toUpperCase)

dateOfIssueFallback(normalizedText, cur) ==
  IF Truthy(cur) THEN cur
  ELSE LET issueMatch == match(normalizedText, passportIssuePattern)
       IN IF issueMatch.ok THEN Some(trim(Group(normalizedText, issueMatch, 1))) ELSE cur

\* ---- issuingAuthority ----
issuingAuthoritySameLine == sameLine(<<Lit("Issuing"), WS1, Lit("Authority")>>)

issuingAuthorityLabel(lines, cur) ==
  labelScan(lines, cur,
            LAMBDA u : includes(u, Chars("ISSUING")) /\ includes(u, Chars("AUTHORITY")),
            issuingAuthoritySameLine, identity,
            LAMBDA v : Len(v) >= 3,
            LAMBDA v : Len(v) >= 3 /\ ~startsWithDigit(v),
            toUpperCase)

\* the loop index i of the source is 0-based: i > 5 is the seventh line onwards
issuingAuthorityFallback(lines, cur) ==
  IF Truthy(cur) THEN cur
  ELSE IF \E k \in 1..Len(lines) :
            LET lineUpper == toUpperCase(lines[k])
            IN /\ includes(lineUpper, Chars("PAKISTAN"))
               /\ \/ includes(lineUpper, Chars("AUTHORITY"))
                  \/ includes(lineUpper, Chars("ISSUING"))
                  \/ k - 1 > 5
       THEN Some(Chars("PAKISTAN"))
  ELSE cur

\* ---- trackingNumber ----
trackingNumberSameLine == sameLine(<<Lit("Tracking"), WS1, Lit("Number")>>)

digitsOnly == RE(<<Bol, Many(DIGIT, 1), Eol>>)
trackingPattern == RE(<<Wb, Grp(<<Rep(DIGIT, 10, 12)>>), Wb>>)
fourDigitsAtEnd == RE(<<Rep(DIGIT, 4, 4), Eol>>)

trackingNumberLabel(lines, cur) ==
  labelScan(lines, cur,
            LAMBDA u : includes(u, Chars("TRACKING")) /\ includes(u, Chars("NUMBER")),
            trackingNumberSameLine, identity,
            LAMBDA v : Len(v) >= 5,
            LAMBDA v : Len(v) >= 5 /\ test(digitsOnly, v),
            identity)

trackingCandidate(line) ==
  LET trackingMatch == match(line, trackingPattern)
      num == Group(line, trackingMatch, 1)
  IN IF /\ trackingMatch.ok
        /\ (~test(fourDigitsAtEnd, num) \/ (Len(num) = 11 /\ ~test(dashedCnic, num)))
     THEN Hit(Some(num))
     ELSE Miss

trackingNumberFallback(lines, cur) ==
  IF Truthy(cur) THEN cur
  ELSE LET r == firstHit(Len(lines), LAMBDA i : trackingCandidate(lines[i]))
       IN IF r.hit THEN r.v ELSE cur

\* ---- citizenshipNumber ----
citizenshipNumberSameLine == sameLine(<<Lit("Citizenship"), WS1, Lit("Number")>>)

dashedCnicGroup ==
  RE(<<Grp(<<Rep(DIGIT, 5, 5), Lit("-"), Rep(DIGIT, 7, 7), Lit("-"), Rep(DIGIT, 1, 1)>>)>>)

thirteenDigitWord == RE(<<Wb, Grp(<<Rep(DIGIT, 13, 13)>>), Wb>>)

\* the value after the label is stored as read, without the dashed format
citizenshipNumberLabel(lines, cur) ==
  labelScan(lines, cur,
            LAMBDA u : includes(u, Chars("CITIZENSHIP")) /\ includes(u, Chars("NUMBER")),
            citizenshipNumberSameLine, identity, hasDigit, hasDigit, identity)

citizenshipCandidate(line) ==
  LET cnicMatch == match(line, dashedCnicGroup)
      cnicMatch2 == match(line, thirteenDigitWord)
  IN IF cnicMatch.ok THEN Hit(Some(Group(line, cnicMatch, 1)))
     ELSE IF cnicMatch2.ok THEN Hit(Some(formatCnic(Group(line, cnicMatch2, 1))))
     ELSE Miss

citizenshipNumberFallback(lines, cur) ==
  IF Truthy(cur) THEN cur
  ELSE LET r == firstHit(Len(lines), LAMBDA i : citizenshipCandidate(lines[i]))
       IN IF r.hit THEN r.v ELSE cur

\* ---- the whole extraction ----
NoMrz == None

\* the merge block with the issuing country copied as well
mrzMergedWithAuthority ==
  {"passportNumber", "surname", "givenNames", "nationality", "dateOfBirth", "gender",
   "dateOfExpiry", "citizenshipNumber", "issuingAuthority"}

\* the fields the merge block copies from the MRZ record
mrzMergedFields ==
  {"passportNumber", "surname", "givenNames", "nationality", "dateOfBirth", "gender",
   "dateOfExpiry", "citizenshipNumber"}

\* the value of field f after the merge block: mrzData.f when f is one of the
\* merged fields and MRZ data exists and carries a non-empty f, else still null
fromMrz(mrzData, f) ==
  IF f \in mrzMergedFields /\ mrzData # NoMrz /\ Truthy(mrzData[1][f]) THEN mrzData[1][f]
  ELSE None

extractPassportData(text, mrzData) ==
  LET normalizedText == normalize(text)
      lines == nonEmptyLines(text)
      dob1 == dateOfBirthLine(lines, dateOfBirthLabel(lines, fromMrz(mrzData, "dateOfBirth")))
      exp1 == dateOfExpiryLine(lines, dateOfExpiryLabel(lines, fromMrz(mrzData, "dateOfExpiry")))
  IN [passportNumber |->
        passportNumberFallback(lines, normalizedText,
                               passportNumberLabel(lines, fromMrz(mrzData, "passportNumber"))),
      surname |-> surnameLabel(lines, fromMrz(mrzData, "surname")),
      givenNames |-> givenNamesFallback(lines, givenNamesLabel(lines, fromMrz(mrzData, "givenNames"))),
      nationality |-> nationalityFallback(lines, nationalityLabel(lines, fromMrz(mrzData, "nationality"))),
      dateOfBirth |-> datesFallback(normalizedText, dob1, dobPatterns, 1),
      placeOfBirth |-> placeOfBirthFallback(lines, placeOfBirthLabel(lines, fromMrz(mrzData, "placeOfBirth"))),
      gender |-> passportGender(normalizedText, fromMrz(mrzData, "gender")),
      dateOfIssue |-> dateOfIssueFallback(normalizedText, dateOfIssueLabel(lines, fromMrz(mrzData, "dateOfIssue"))),
      dateOfExpiry |-> datesFallback(normalizedText, exp1, expiryPatterns, 2),
      issuingAuthority |-> issuingAuthorityFallback(lines,
                                 issuingAuthorityLabel(lines, fromMrz(mrzData, "issuingAuthority"))),
      husbandName |-> fromMrz(mrzData, "husbandName"),
      fatherName |-> passportFatherNameFallback(lines,
                                   passportFatherNameLabel(lines, fromMrz(mrzData, "fatherName"))),
      citizenshipNumber |->
        citizenshipNumberFallback(lines,
                                  citizenshipNumberLabel(lines, fromMrz(mrzData, "citizenshipNumber"))),
      trackingNumber |-> trackingNumberFallback(lines, trackingNumberLabel(lines, fromMrz(mrzData, "trackingNumber"))),
      rawText |-> <<Str(text)>>]

(***************************************************************************)
(* DataExtractor.extractCNICData: name, fatherName, country and address,   *)
(* then the whole extraction.  Texts are over ASCII, so the long dash of   *)
(* the source's character classes does not occur.                          *)
(***************************************************************************)
excludeKeywords ==
  <<"PAKISTAN", "PAK", "NATIONAL", "IDENTITY", "CARD", "ISLAMIC", "REPUBLIC", "CNIC", "MALE",
    "FEMALE", "GENDER", "COUNTRY", "DATE", "BIRTH", "ISSUE", "EXPIRY", "ADDRESS", "HOLDER",
    "SIGNATURE", "STAY", "OF", "NUMBER">>

excludeChars == [k \in 1..Len(excludeKeywords) |-> Chars(excludeKeywords[k])]

\* same-line value: it equals a keyword, or starts or ends with one as a separate word
containsExcludedSameLine(upper) ==
  \E k \in 1..Len(excludeChars) :
     \/ upper = excludeChars[k]
     \/ startsWith(upper, excludeChars[k] \o <<" ">>)
     \/ endsWith(upper, <<" ">> \o excludeChars[k])

\* next-line value: it equals a keyword, or is shorter than 20 and contains one
containsExcludedNextLine(upper) ==
  \E k \in 1..Len(excludeChars) :
     \/ upper = excludeChars[k]
     \/ (Len(upper) < 20 /\ includes(upper, excludeChars[k]))

\* fallback line: it is shorter than 30 and contains a keyword
containsExcludedLine(upper) ==
  \E k \in 1..Len(excludeChars) : includes(upper, excludeChars[k]) /\ Len(upper) < 30

\* /^(w1|w2|...)/
startsWithOneOf(words) == RE(<<Bol, Alt([k \in 1..Len(words) |-> <<Lit(words[k])>>])>>)

nameAnotherLabel ==
  startsWithOneOf(<<"FATHER", "HUSBAND", "GENDER", "COUNTRY", "IDENTITY", "CNIC", "DATE", "BIRTH",
                    "ISSUE", "EXPIRY">>)

nameAnotherLabelOrGender ==
  startsWithOneOf(<<"FATHER", "HUSBAND", "GENDER", "COUNTRY", "IDENTITY", "CNIC", "DATE", "BIRTH",
                    "ISSUE", "EXPIRY", "MALE", "FEMALE">>)

fatherAnotherLabel ==
  startsWithOneOf(<<"GENDER", "COUNTRY", "IDENTITY", "CNIC", "DATE", "BIRTH", "ISSUE", "EXPIRY",
                    "NAME">>)

fatherAnotherLabelOrGender ==
  startsWithOneOf(<<"GENDER", "COUNTRY", "IDENTITY", "CNIC", "DATE", "BIRTH", "ISSUE", "EXPIRY",
                    "MALE", "FEMALE", "NAME">>)

fiveDigits == RE(<<Rep(DIGIT, 5, 5)>>)

\* ---- name ----
cnicNameSameLine == sameLine(<<Lit("Name")>>)

\* every line that mentions NAME taken for the name label
isNameLabelOnAnyName(lineUpper) == includes(lineUpper, Chars("NAME"))

isNameLabel(lineUpper) ==
  /\ includes(lineUpper, Chars("NAME"))
  /\ ~includes(lineUpper, Chars("FATHER"))
  /\ ~includes(lineUpper, Chars("HUSBAND"))

\* the acceptance test of a value found after the label on the label's line
nameAcceptedSameLine(name) ==
  /\ Len(name) >= 2
  /\ ~startsWithDigit(name)
  /\ ~containsExcludedSameLine(toUpperCase(name))
  /\ ~test(nameAnotherLabel, toUpperCase(name))

\* the acceptance test of the line that follows the label
nameAcceptedNextLine(name) ==
  /\ Len(name) >= 2
  /\ ~startsWithDigit(name)
  /\ ~containsExcludedNextLine(toUpperCase(name))
  /\ ~test(nameAnotherLabelOrGender, toUpperCase(name))

\* what the name label loop finds on line i alone
cnicNameAt(lines, i) ==
  labelCandidate(lines, i, None, isNameLabel, cnicNameSameLine, collapseSpaces,
                 nameAcceptedSameLine, nameAcceptedNextLine, toUpperCase)

\* the name label loop running to the last line without a break
cnicNameLabelLastMatch(lines) ==
  LET hits == {i \in 1..Len(lines) : cnicNameAt(lines, i).hit}
  IN IF hits = {} THEN None ELSE cnicNameAt(lines, CHOOSE i \in hits : \A j \in hits : j <= i).v

cnicNameLabel(lines) ==
  labelScan(lines, None, isNameLabel, cnicNameSameLine, collapseSpaces,
            nameAcceptedSameLine, nameAcceptedNextLine, toUpperCase)

SetMax(S) == CHOOSE a \in S : \A b \in S : a >= b

MaxOr(S, default) == IF S = {} THEN default ELSE SetMax(S)
MinOr(S, default) == IF S = {} THEN default ELSE SetMin(S)

\* the number of lines up to the last of the first five that mentions the
\* card's header; 0 when none does (headerEndIndex + 1 of the source)
headerEnd(lines) ==
  MaxOr({i \in 1..Min(Len(lines), 5) :
           \/ includes(toUpperCase(lines[i]), Chars("PAKISTAN"))
           \/ includes(toUpperCase(lines[i]), Chars("IDENTITY"))
           \/ includes(toUpperCase(lines[i]), Chars("CARD"))}, 0)

isNameLike(line) ==
  /\ wordCount(line) \in 1..4
  /\ Len(line) >= 3
  /\ Len(line) <= 30
  /\ ~startsWithDigit(line)
  /\ ~containsExcludedLine(toUpperCase(line))
  /\ ~test(nameAnotherLabelOrGender, toUpperCase(line))
  /\ ~test(fiveDigits, line)

\* startIndex: the 0-based index the fallback loop starts at; it looks at five lines
nameLikeCandidate(lines, i, startIndex) ==
  IF i - 1 >= startIndex /\ i - 1 < startIndex + 5 /\ isNameLike(trim(lines[i]))
  THEN Hit(Some(toUpperCase(trim(collapseSpaces(trim(lines[i]))))))
  ELSE Miss

nameScanFrom(lines, startIndex) ==
  firstHit(Len(lines), LAMBDA i : nameLikeCandidate(lines, i, startIndex))

\* the structural pass for the name run whether or not a label gave a name
cnicNameFallbackUnguarded(lines, cur) ==
  IF Len(lines) <= 1 THEN cur
  ELSE hitOr(nameScanFrom(lines, Max(headerEnd(lines), 1)), cur)

cnicNameFallback(lines, cur) ==
  IF Truthy(cur) \/ Len(lines) <= 1 THEN cur
  ELSE hitOr(nameScanFrom(lines, Max(headerEnd(lines), 1)), cur)

\* ---- fatherName ----
cnicFatherSameLine ==
  sameLine(<<Alt(<< <<Lit("Father"), WS1, Lit("Name")>>, <<Lit("Father")>>,
                    <<Lit("Husband"), WS1, Lit("Name")>>, <<Lit("Husband")>>,
                    <<Lit("S/O")>>, <<Lit("D/O")>>, <<Lit("W/O")>> >>)>>)

isFatherNameLabel(lineUpper) ==
  \/ (includes(lineUpper, Chars("FATHER")) /\ includes(lineUpper, Chars("NAME")))
  \/ (includes(lineUpper, Chars("HUSBAND")) /\ includes(lineUpper, Chars("NAME")))
  \/ includes(lineUpper, Chars("S/O"))
  \/ includes(lineUpper, Chars("D/O"))
  \/ includes(lineUpper, Chars("W/O"))

\* !data.name || fatherName.toUpperCase() !== data.name.toUpperCase()
differsFromName(value, name) ==
  ~Truthy(name) \/ toUpperCase(value) # toUpperCase(Chars(name[1]))

fatherAcceptedSameLine(fatherName, name) ==
  /\ Len(fatherName) >= 2
  /\ ~startsWithDigit(fatherName)
  /\ ~containsExcludedSameLine(toUpperCase(fatherName))
  /\ ~test(fatherAnotherLabel, toUpperCase(fatherName))
  /\ differsFromName(fatherName, name)

fatherAcceptedNextLine(fatherName, name) ==
  /\ Len(fatherName) >= 2
  /\ ~startsWithDigit(fatherName)
  /\ ~containsExcludedNextLine(toUpperCase(fatherName))
  /\ ~test(fatherAnotherLabelOrGender, toUpperCase(fatherName))
  /\ differsFromName(fatherName, name)

cnicFatherNameLabel(lines, name) ==
  labelScan(lines, None, isFatherNameLabel, cnicFatherSameLine, collapseSpaces,
            LAMBDA v : fatherAcceptedSameLine(v, name),
            LAMBDA v : fatherAcceptedNextLine(v, name),
            toUpperCase)

\* the line carries the name, allowing for misread characters
mentionsName(lineUpper, nameUpper) ==
  \/ includes(lineUpper, nameUpper)
  \/ includes(nameUpper, lineUpper)
  \/ /\ Len(nameUpper) > 5
     /\ includes(substring(lineUpper, 0, Len(nameUpper)), substring(nameUpper, 0, 5))

\* the number of lines up to the first that carries the name; 0 when none
\* does (nameLineIndex + 1 of the source)
nameLine(lines, name) ==
  MinOr({i \in 1..Len(lines) :
           mentionsName(toUpperCase(lines[i]), toUpperCase(Chars(name[1])))}, 0)

noLetters == RE(<<Bol, ManyNot(ALPHA, 0), Eol>>)
leadingMarks == RE(<<Bol, Many({"-", "_", "|"}, 1)>>)
leadingNonLetters == RE(<<Bol, ManyNot(ALPHA, 2)>>)
threeLetters == RE(<<Many(ALPHA, 3)>>)
trailingMarks == RE(<<Many({"|", "-", "_"} \cup SPACE, 1), Eol>>)
leadingMarksOrSpaces == RE(<<Bol, Many({"|", "-", "_"} \cup SPACE, 1)>>)

letterCount(cs) == Len(SelectSeq(cs, LAMBDA c : c \in ALPHA))

\* /(.)\1{2,}/: a character other than a line break three times in a row
hasSuspiciousPattern(line) ==
  \E i \in 1..(Len(line) - 2) :
     line[i] \notin NEWLINE /\ line[i + 1] = line[i] /\ line[i + 2] = line[i]

\* line.split(/\s+/).filter(w => w.length > 0)
wordsOf(line) == SelectSeq(split(line, RE(<<WS1>>)), LAMBDA w : Len(w) > 0)

\* words: the words of the line
fatherWordsLike(words) ==
  /\ Len(words) \in 1..4
  /\ \E k \in 1..Len(words) : letterCount(words[k]) >= 3

\* letterCount >= line.length * 0.6, in whole numbers
hasEnoughLetters(line) == 5 * letterCount(line) >= 3 * Len(line)

isFatherNameLike(line) ==
  /\ fatherWordsLike(wordsOf(line))
  /\ Len(line) >= 8
  /\ Len(line) <= 35
  /\ ~startsWithDigit(line)
  /\ ~containsExcludedLine(toUpperCase(line))
  /\ ~test(fatherAnotherLabelOrGender, toUpperCase(line))
  /\ ~test(fiveDigits, line)
  /\ hasEnoughLetters(line)
  /\ ~test(leadingMarks, line)
  /\ ~test(leadingNonLetters, line)
  /\ ~hasSuspiciousPattern(line)

\* the marks at the end and then at the start of the line are removed
cleanedFatherName(line) ==
  trim(replaceFirst(trim(replaceFirst(trim(collapseSpaces(line)), trailingMarks, <<>>)),
                    leadingMarksOrSpaces, <<>>))

\* the final validation of the cleaned value
fatherNameIfValid(cleanedName) ==
  IF Len(cleanedName) >= 8 /\ test(threeLetters, cleanedName)
  THEN Hit(Some(toUpperCase(cleanedName)))
  ELSE Miss

\* startIndex: the 0-based index the fallback loop starts at; it looks at six lines
fatherLikeCandidate(line, i, startIndex, name) ==
  IF /\ i - 1 >= startIndex
     /\ i - 1 < startIndex + 6
     /\ Len(line) >= 6
     /\ ~test(noLetters, line)
     /\ isFatherNameLike(line)
     /\ toUpperCase(line) # toUpperCase(Chars(name[1]))
  THEN fatherNameIfValid(cleanedFatherName(line))
  ELSE Miss

fatherScanFrom(lines, startIndex, name) ==
  firstHit(Len(lines), LAMBDA i : fatherLikeCandidate(trim(lines[i]), i, startIndex, name))

\* nameLineIndex >= 0 ? nameLineIndex + 2 : 3
fatherStartIndex(nameLineNumber) == IF nameLineNumber >= 1 THEN nameLineNumber + 1 ELSE 3

cnicFatherNameFallback(lines, name, cur) ==
  IF Truthy(cur) \/ ~Truthy(name) \/ Len(lines) <= 2 THEN cur
  ELSE hitOr(fatherScanFrom(lines, fatherStartIndex(nameLine(lines, name)), name), cur)

\* ---- country ----
countryKeywords ==
  << <<"PAKISTAN">>, <<"PAK">>, <<"USA">>, <<"UNITED", "STATES">>,
     <<"UNITED", "STATES", "OF", "AMERICA">>, <<"UK">>, <<"UNITED", "KINGDOM">>, <<"CANADA">>,
     <<"AUSTRALIA">>, <<"INDIA">>, <<"CHINA">>, <<"GERMANY">>, <<"FRANCE">>, <<"ITALY">>,
     <<"SPAIN">>, <<"SAUDI", "ARABIA">>, <<"UAE">>, <<"UNITED", "ARAB", "EMIRATES">>,
     <<"BANGLADESH">>, <<"SRI", "LANKA">>, <<"AFGHANISTAN">>, <<"IRAN">>, <<"TURKEY">>,
     <<"EGYPT">>, <<"JAPAN">>, <<"SOUTH", "KOREA">>, <<"THAILAND">>, <<"MALAYSIA">>,
     <<"INDONESIA">>, <<"SINGAPORE">>, <<"PHILIPPINES">>, <<"VIETNAM">> >>

RECURSIVE JoinWords(_, _)
\* the words joined by single spaces
JoinWords(words, k) ==
  IF k > Len(words) THEN <<>>
  ELSE IF k = Len(words) THEN Chars(words[k])
  ELSE Chars(words[k]) \o <<" ">> \o JoinWords(words, k + 1)

RECURSIVE WordItems(_, _)
\* keyword.replace(/\s+/g, "\\s+"): the words separated by white space
WordItems(words, k) ==
  IF k > Len(words) THEN <<>>
  ELSE IF k = Len(words) THEN <<Lit(words[k])>>
  ELSE <<Lit(words[k]), WS1>> \o WordItems(words, k + 1)

countryKeywordChars == [k \in 1..Len(countryKeywords) |-> JoinWords(countryKeywords[k], 1)]

\* new RegExp(`\\b${keyword}\\b`, "i")
countryKeywordPatterns ==
  [k \in 1..Len(countryKeywords) |-> REi(<<Wb>> \o WordItems(countryKeywords[k], 1) \o <<Wb>>)]

\* the abbreviations are replaced by the full names
normalizedCountry(keyword) ==
  IF keyword = Chars("PAK") THEN Chars("PAKISTAN")
  ELSE IF keyword = Chars("USA") \/ keyword = Chars("US") THEN Chars("UNITED STATES")
  ELSE IF keyword = Chars("UK") THEN Chars("UNITED KINGDOM")
  ELSE IF keyword = Chars("UAE") THEN Chars("UNITED ARAB EMIRATES")
  ELSE keyword

\* k: the position of the first keyword found, 0 when none is
countryOfKeyword(k, cur) ==
  IF k = 0 THEN cur ELSE Some(normalizedCountry(countryKeywordChars[k]))

countryByKeyword(text) ==
  countryOfKeyword(MinOr({k \in 1..Len(countryKeywords) : test(countryKeywordPatterns[k], text)}, 0),
                   None)

countryValue == Grp(<<RepLazy(UPPER \cup SPACE, 2, -1)>>)

countryPatterns ==
  <<REi(<<Alt(<< <<Lit("Country")>>, <<Lit("Nationality")>>,
                 <<Lit("Country"), WS1, Lit("of"), WS1, Lit("Birth")>>,
                 <<Lit("Country"), WS1, Lit("Name")>>,
                 <<Lit("Nationality"), WS1, Lit("Code")>> >>),
          LabelSep1, countryValue, Alt(<< <<WS1, One(DIGIT)>>, <<EolM>> >>)>>),
    REi(<<Alt(<< <<Lit("Issued"), WS1, Lit("in")>>, <<Lit("Issued"), WS1, Lit("by")>>,
                 <<Lit("Place"), WS1, Lit("of"), WS1, Lit("Issue")>> >>),
          LabelSep1, countryValue, Alt(<< <<WS1, One(DIGIT)>>, <<Eol>> >>)>>)>>

\* countryKeywords.find(...): the position of the first keyword that the
\* value contains or that contains the value, 0 when there is none
matchedCountry(country) ==
  MinOr({k \in 1..Len(countryKeywords) :
           \/ includes(country, countryKeywordChars[k])
           \/ includes(countryKeywordChars[k], country)
           \/ includes(collapseSpaces(country), collapseSpaces(countryKeywordChars[k]))}, 0)

\* k: the position of the matched keyword, 0 when none matched
countryOfValue(country, k) ==
  IF k > 0 THEN Hit(Some(normalizedCountry(countryKeywordChars[k])))
  ELSE IF Len(country) >= 3 /\ ~startsWithDigit(country) THEN Hit(Some(country))
  ELSE Miss

countryFromValue(country) == countryOfValue(country, matchedCountry(country))

countryFromMatch(text, m) ==
  IF m.ok /\ Len(Group(text, m, 1)) > 0
  THEN countryFromValue(toUpperCase(trim(Group(text, m, 1))))
  ELSE Miss

countryByPattern(text, cur) ==
  IF Truthy(cur) THEN cur
  ELSE hitOr(firstHit(Len(countryPatterns),
                      LAMBDA p : countryFromMatch(text, match(text, countryPatterns[p]))), cur)

pakistanWord == REi(<<Wb, Lit("PAKISTAN"), Wb>>)
pakWord == REi(<<Wb, Lit("PAK"), Wb>>)
pakistanAnywhere == REi(<<Lit("PAKISTAN")>>)

countryLastResort(text, cur) ==
  IF Truthy(cur) THEN cur
  ELSE IF test(pakistanWord, text) THEN Some(Chars("PAKISTAN"))
  ELSE IF test(pakWord, text) /\ ~test(pakistanAnywhere, text) THEN Some(Chars("PAKISTAN"))
  ELSE cur

cnicCountry(text) == countryLastResort(text, countryByPattern(text, countryByKeyword(text)))

\* ---- address ----
addressPattern ==
  REi(<<Alt(<< <<Lit("Address")>>, <<Lit("Residence")>> >>), LabelSep1, Grp(<<AnyPlusLazy>>),
        Alt(<< <<WS1, Rep(DIGIT, 5, 5)>>, <<Eol>> >>)>>)

addressOfMatch(normalizedText, addressMatch) ==
  IF addressMatch.ok /\ Len(Group(normalizedText, addressMatch, 1)) > 0
  THEN Some(trim(Group(normalizedText, addressMatch, 1)))
  ELSE None

cnicAddress(normalizedText) == addressOfMatch(normalizedText, match(normalizedText, addressPattern))

\* ---- the whole extraction ----
\* name: the name found, which the father's name must differ from
cnicRecord(text, normalizedText, lines, dates, name) ==
  [name |-> name,
   fatherName |-> cnicFatherNameFallback(lines, name, cnicFatherNameLabel(lines, name)),
   country |-> cnicCountry(text),
   cnicNumber |-> cnicNumberOf(normalizedText),
   dateOfBirth |-> cnicDate(normalizedText, dates, dobPattern, 1),
   dateOfIssue |-> cnicDate(normalizedText, dates, issuePattern, 2),
   dateOfExpiry |-> cnicDate(normalizedText, dates, expiryPattern, 3),
   gender |-> genderOf(normalizedText),
   address |-> cnicAddress(normalizedText),
   rawText |-> <<Str(text)>>]

cnicFields(text, normalizedText, lines) ==
  cnicRecord(text, normalizedText, lines, matchAll(normalizedText, datePattern),
             cnicNameFallback(lines, cnicNameLabel(lines)))

extractCNICData(text) == cnicFields(text, normalize(text), nonEmptyLines(text))

(***************************************************************************)
(* DataExtractor.cleanData                                                 *)
(***************************************************************************)
cnicRequiredFields == <<"name", "fatherName", "country", "cnicNumber">>

passportRequiredFields ==
  <<"passportNumber", "surname", "givenNames", "nationality", "fatherName", "dateOfIssue",
    "issuingAuthority", "trackingNumber", "husbandName", "citizenshipNumber">>

requiredFieldsOf(data) ==
  LET isPassport == "passportNumber" \in DOMAIN data \/ "surname" \in DOMAIN data
  IN IF isPassport THEN passportRequiredFields ELSE cnicRequiredFields

\* cleanData without its exemption of the required fields
cleanDataDroppingRequired(data) ==
  LET kept == {key \in DOMAIN data : ~(data[key] = None \/ data[key] = <<"">>)}
  IN [key \in kept |-> data[key]]

\* cleanData removing null but not the empty string
cleanDataKeepingEmpty(data) ==
  LET requiredFields == Range(requiredFieldsOf(data))
      kept == {key \in DOMAIN data : ~(data[key] = None /\ key \notin requiredFields)}
  IN [key \in kept \cup requiredFields |-> IF key \in kept THEN data[key] ELSE None]

\* cleanData returning the required fields and nothing else
cleanDataRequiredOnly(data) ==
  [key \in Range(requiredFieldsOf(data)) |-> IF key \in DOMAIN data THEN data[key] ELSE None]

cleanData(data) ==
  LET requiredFields == Range(requiredFieldsOf(data))
      kept == {key \in DOMAIN data :
                 ~((data[key] = None \/ data[key] = <<"">>) /\ key \notin requiredFields)}
  IN [key \in kept \cup requiredFields |-> IF key \in kept THEN data[key] ELSE None]

(***************************************************************************)
(* The passport route: selection of the two MRZ lines from the recognized  *)
(* text, scanning its last lines from the bottom upwards.                  *)
(***************************************************************************)
MrzWindow == 15
MrzMinLength == 20
MrzLine2MinLength == 25
MrzLineLength == 44

MrzChars == UPPER \cup DIGIT \cup {"<"}

\* extractedText.split('\n').map(l => l.trim())
mrzAllLines(text) ==
  LET parts == split(text, RE(<<Lit("\n")>>))
  IN [i \in 1..Len(parts) |-> trim(parts[i])]

\* removal of the OCR artifacts "|", "vo", "peor" and of all white space
stripArtifacts(line) ==
  SelectSeq(replaceAll(replaceAll(SelectSeq(line, LAMBDA c : c # "|"),
                                  REi(<<Lit("vo"), WS0>>), <<>>),
                       REi(<<Lit("peor"), WS0>>), <<>>),
            LAMBDA ch : ch \notin SPACE)

mrzHintPattern ==
  RE(<<Alt(<< <<Lit("PSPAK")>>, <<Lit("P<PAK")>>, <<Lit("AA"), Many(DIGIT, 1)>>,
             <<Lit("PAK"), Rep(DIGIT, 6, 6), One({"M", "F"})>>, <<Lit("CLL")>>, <<Lit("LLL")>> >>)>>)

hasMRZPattern(line) ==
  \/ test(mrzHintPattern, line)
  \/ (Len(line) >= MrzMinLength /\ (includes(line, Chars("PAK")) \/ includes(line, Chars("<<"))))

\* the chain of replacements that repairs common misreadings of "<"
mrzRepairs ==
  << [re |-> RE(<<Lit("PS")>>), tmpl |-> <<TLit("P<")>>, all |-> TRUE],
     [re |-> RE(<<Bol, Lit("P"), Grp(<<One(UPPER)>>)>>), tmpl |-> <<TLit("P<"), TGrp(1)>>, all |-> FALSE],
     [re |-> RE(<<Lit("CLL")>>), tmpl |-> <<TLit("<")>>, all |-> TRUE],
     [re |-> RE(<<Lit("LLL")>>), tmpl |-> <<TLit("<")>>, all |-> TRUE],
     [re |-> RE(<<Lit("LL")>>), tmpl |-> <<TLit("<")>>, all |-> TRUE],
     [re |-> RE(<<Grp(<<One(UPPER)>>), Lit("K"), Grp(<<One(UPPER)>>)>>),
      tmpl |-> <<TGrp(1), TLit("<"), TGrp(2)>>, all |-> TRUE],
     [re |-> RE(<<Lit("K<<<")>>), tmpl |-> <<TLit("<<<")>>, all |-> TRUE],
     [re |-> RE(<<Lit("K<<")>>), tmpl |-> <<TLit("<<")>>, all |-> TRUE],
     [re |-> RE(<<Lit("K<")>>), tmpl |-> <<TLit("<")>>, all |-> TRUE] >>

RECURSIVE applyRepairs(_, _, _)
\* the replacements repairs[k..] applied in turn
applyRepairs(cs, repairs, k) ==
  IF k > Len(repairs) THEN cs
  ELSE applyRepairs(IF repairs[k].all THEN replaceAll(cs, repairs[k].re, repairs[k].tmpl)
                    ELSE replaceFirst(cs, repairs[k].re, repairs[k].tmpl),
                    repairs, k + 1)

cleanMrzLine(line) == applyRepairs(SelectSeq(line, LAMBDA c : c \in MrzChars), mrzRepairs, 1)

startsWithMarker(cs) ==
  startsWith(cs, Chars("P<")) \/ startsWith(cs, Chars("I<")) \/ startsWith(cs, Chars("A<"))

markerAndCountry(letters) == RE(<<Bol, One(letters), Rep(UPPER, 3, 3)>>)

isLine1(cleanedLine) ==
  \/ startsWithMarker(cleanedLine)
  \/ test(markerAndCountry({"P"}), cleanedLine)
  \/ test(markerAndCountry({"I"}), cleanedLine)
  \/ test(markerAndCountry({"A"}), cleanedLine)
  \/ (includes(cleanedLine, Chars("PAK")) /\ includes(cleanedLine, Chars("<")))
  \/ (includes(cleanedLine, Chars("<")) /\ test(RE(<<Rep(UPPER, 3, 3), Many(UPPER, 1)>>), cleanedLine))

\* "<" inserted after the category letter when it is missing
anchorLine1(cleanedLine) ==
  IF startsWithMarker(cleanedLine) THEN cleanedLine
  ELSE replaceFirst(cleanedLine, RE(<<Bol, Grp(<<One({"P", "I", "A"})>>), Grp(<<One(UPPER)>>)>>),
                    <<TGrp(1), TLit("<"), TGrp(2)>>)

isLine2(cleanedLine) ==
  \/ /\ test(RE(<<Bol, Many(UPPER \cup DIGIT, 9)>>), cleanedLine)
     /\ \/ includes(cleanedLine, Chars("<"))
        \/ test(RE(<<Rep(DIGIT, 6, 6), One({"M", "F"}), Rep(DIGIT, 6, 6)>>), cleanedLine)
        \/ includes(cleanedLine, Chars("PAK"))
  \/ (Len(cleanedLine) >= MrzLine2MinLength
      /\ test(RE(<<Bol, Rep(UPPER, 2, 2), Many(DIGIT, 7)>>), cleanedLine))

isLine2Fallback(cleanedLine) ==
  /\ Len(cleanedLine) >= MrzLine2MinLength
  /\ test(RE(<<Bol, One(UPPER \cup DIGIT)>>), cleanedLine)
  /\ ~startsWithMarker(cleanedLine)
  /\ ~test(markerAndCountry({"P", "I", "A"}), cleanedLine)

\* the selection after a cleaned line that is long enough
mrzSelect(mrzLines, cleanedLine) ==
  IF Len(cleanedLine) < MrzMinLength THEN mrzLines
  ELSE IF Len(mrzLines) = 0
       THEN (IF isLine1(cleanedLine) THEN <<anchorLine1(cleanedLine)>> ELSE mrzLines)
  ELSE IF Len(mrzLines) = 1
       THEN (IF isLine2(cleanedLine) \/ isLine2Fallback(cleanedLine)
             THEN Append(mrzLines, cleanedLine) ELSE mrzLines)
  ELSE mrzLines

\* line: the scanned line without its artifacts
mrzConsider(mrzLines, line) ==
  IF ~(Len(line) >= MrzMinLength \/ hasMRZPattern(line)) THEN mrzLines
  ELSE mrzSelect(mrzLines, cleanMrzLine(line))

\* one iteration of the scan: the MRZ lines selected so far, after looking at one line
mrzScanLine(mrzLines, rawLine) == mrzConsider(mrzLines, stripArtifacts(rawLine))

RECURSIVE mrzScan(_, _, _, _)
\* for (i = last; i >= max(0, length - 15); i--), leaving once two lines are selected
mrzScan(allLines, i, lowest, mrzLines) ==
  IF i < lowest \/ Len(mrzLines) >= 2 THEN mrzLines
  ELSE mrzScan(allLines, i - 1, lowest, mrzScanLine(mrzLines, allLines[i]))

\* the scan running over every line of the text
mrzScanWholeText(allLines) == mrzScan(allLines, Len(allLines), 1, <<>>)

mrzScanAll(allLines) ==
  mrzScan(allLines, Len(allLines), Max(1, Len(allLines) - MrzWindow + 1), <<>>)

findMrzLines(text) == mrzScanAll(mrzAllLines(text))

\* mrzLines[k].padEnd(44, '<').substring(0, 44)
padMrzLine(line) == substring(padEnd(line, MrzLineLength, "<"), 0, MrzLineLength)

\* line 1 is made to start with its category letter followed by "<"
reanchorLine1(line1) ==
  IF startsWithMarker(line1) THEN line1
  ELSE IF startsWith(line1, <<"P">>) THEN Chars("P<") \o substringFrom(line1, 1)
  ELSE IF startsWith(line1, <<"I">>) THEN Chars("I<") \o substringFrom(line1, 1)
  ELSE IF startsWith(line1, <<"A">>) THEN Chars("A<") \o substringFrom(line1, 1)
  ELSE line1

\* the two lines handed to the decoder
mrzTextLines(mrzLines) == <<reanchorLine1(padMrzLine(mrzLines[1])), padMrzLine(mrzLines[2])>>

isoDate == RE(<<Bol, Rep(DIGIT, 4, 4), Lit("-"), Rep(DIGIT, 2, 2), Lit("-"), Rep(DIGIT, 2, 2), Eol>>)

\* parseInt of a two-digit month
monthNumber(mm) ==
  (CHOOSE d \in 0..9 : DigitChars[d + 1] = mm[1]) * 10 + (CHOOSE d \in 0..9 : DigitChars[d + 1] = mm[2])

\* formatDate: YYYY-MM-DD becomes DD MMM YYYY, anything else is returned as it is
formatDate(dateStr) ==
  IF dateStr = "" THEN None
  ELSE LET cs == Chars(dateStr)
           year == SubSeq(cs, 1, 4)
           month == monthNumber(SubSeq(cs, 6, 7))
           day == SubSeq(cs, 9, 10)
           monthName == IF month \in 1..Len(MonthNames) THEN Chars(MonthNames[month])
                        ELSE Chars("undefined")
       IN IF test(isoDate, cs) THEN Some(day \o <<" ">> \o monthName \o <<" ">> \o year)
          ELSE <<dateStr>>

optionalCnicPattern ==
  RE(<<Grp(<<Rep(DIGIT, 5, 5), Rep({"-"}, 0, 1), Rep(DIGIT, 7, 7), Rep({"-"}, 0, 1), Rep(DIGIT, 1, 1)>>)>>)

\* the citizenship number carried in the optional data of the MRZ
mrzCitizenshipNumber(optionalDataField) ==
  LET optionalData == SelectSeq(Chars(optionalDataField), LAMBDA c : c \notin SPACE)
      cnicMatch == match(optionalData, optionalCnicPattern)
      cnic == SelectSeq(Group(optionalData, cnicMatch, 1), LAMBDA c : c # "-")
  IN IF optionalDataField = "" THEN None
     ELSE IF cnicMatch.ok THEN (IF Len(cnic) = 13 THEN Some(formatCnic(cnic)) ELSE None)
     ELSE IF test(RE(<<Bol, Rep(DIGIT, 13, 13), Eol>>), optionalData) THEN Some(formatCnic(optionalData))
     ELSE None

orNull(str) == IF str = "" THEN None ELSE <<str>>

\* mrzData as built from a valid decoder result
mrzDataOf(fields) ==
  <<[passportNumber |-> orNull(fields.documentNumber),
     surname |-> orNull(fields.lastName),
     givenNames |-> orNull(fields.firstName),
     nationality |-> orNull(fields.nationality),
     dateOfBirth |-> formatDate(fields.birthDate),
     gender |-> IF fields.sex = "" THEN None ELSE IF fields.sex = "M" THEN <<"MALE">> ELSE <<"FEMALE">>,
     dateOfExpiry |-> formatDate(fields.expirationDate),
     issuingAuthority |-> orNull(fields.issuingCountry),
     citizenshipNumber |-> mrzCitizenshipNumber(fields.optionalData)]>>

\* the decoder's fields taken whenever it did not throw
mrzDataIgnoringValidity(mrzResult) ==
  IF mrzResult.threw THEN NoMrz ELSE mrzDataOf(mrzResult.fields)

\* the try block around the decoder: mrzData stays null when it throws or reports invalid
mrzDataFrom(mrzResult) ==
  IF mrzResult.threw \/ ~mrzResult.valid THEN NoMrz ELSE mrzDataOf(mrzResult.fields)

(***************************************************************************)
(* The confidence report of the passport route.  ocrConfidence is the      *)
(* quotient num / den; Math.round rounds halves upwards.                   *)
(***************************************************************************)
PdfConfidence == 85
MrzBonus == 20

\* Math.round(p / q) for p >= 0, q > 0
RoundQuotient(p, q) == (2 * p + q) \div (2 * q)

RECURSIVE SumSeq(_, _)
SumSeq(ns, i) == IF i > Len(ns) THEN 0 ELSE ns[i] + SumSeq(ns, i + 1)

RECURSIVE Gcd(_, _)
Gcd(a, b) == IF b = 0 THEN a ELSE Gcd(b, a % b)

\* the number p / q, kept in lowest terms
Quotient(p, q) == [num |-> p \div Gcd(p, q), den |-> q \div Gcd(p, q)]

\* the mean of the word confidences above 0, else 0
wordConfidence(words) ==
  LET confidences == SelectSeq(words, LAMBDA conf : conf > 0)
  IN IF Len(confidences) > 0 THEN Quotient(SumSeq(confidences, 1), Len(confidences))
     ELSE Quotient(0, 1)

\* the accuracy taken over the fields cleanData keeps
requiredFieldsChecked == passportRequiredFields

fieldsToCheck ==
  <<"passportNumber", "surname", "givenNames", "nationality", "dateOfBirth", "placeOfBirth",
    "gender", "dateOfIssue", "dateOfExpiry", "issuingAuthority", "husbandName", "citizenshipNumber">>

\* a field counted as soon as the record has its key
hasKey(cleanedData, field) == field \in DOMAIN cleanedData

\* cleanedData[field] !== null && !== '' && !== undefined
hasValue(cleanedData, field) == field \in DOMAIN cleanedData /\ Truthy(cleanedData[field])

extractedFieldCount(cleanedData) ==
  Cardinality({i \in 1..Len(fieldsToCheck) : hasValue(cleanedData, fieldsToCheck[i])})

extractionAccuracyOf(cleanedData) ==
  RoundQuotient(extractedFieldCount(cleanedData) * 100, Len(fieldsToCheck))

mrzBonusOf(mrzData) == IF mrzData # NoMrz THEN MrzBonus ELSE 0

\* the weighted sum without the MRZ bonus
overallConfidenceWithoutBonus(ocr, extractionAccuracy, mrzBonus) ==
  Min(100, RoundQuotient(10 * ocr.num + 6 * extractionAccuracy * ocr.den, 20 * ocr.den))

\* Math.min(100, Math.round(ocrConfidence * 0.5 + extractionAccuracy * 0.3 + mrzBonus))
overallConfidenceOf(ocr, extractionAccuracy, mrzBonus) ==
  Min(100, RoundQuotient(10 * ocr.num + (6 * extractionAccuracy + 20 * mrzBonus) * ocr.den,
                         20 * ocr.den))

confidenceReport(ocr, cleanedData, mrzData) ==
  [ocrConfidence |-> RoundQuotient(ocr.num, ocr.den),
   extractionAccuracy |-> extractionAccuracyOf(cleanedData),
   overallConfidence |-> overallConfidenceOf(ocr, extractionAccuracyOf(cleanedData), mrzBonusOf(mrzData)),
   mrzUsed |-> mrzData # NoMrz]

(***************************************************************************)
(* Inputs: the texts the recognizers return, the word confidences, and the *)
(* results of the MRZ decoder.                                             *)
(***************************************************************************)
MaxLines == 2
MaxWords == 2
MaxLinesBeforeMrz == 1

RECURSIVE JoinLines(_, _)
JoinLines(ls, i) ==
  IF i > Len(ls) THEN ""
  ELSE IF i = Len(ls) THEN ls[i]
  ELSE ls[i] \o "\n" \o JoinLines(ls, i + 1)

\* every sequence of at most MaxLines lines of the vocabulary
LinesOver(vocabulary) == UNION {[1..n -> vocabulary] : n \in 0..MaxLines}

CnicVocabulary ==
  {"01.01.1990 01.01.2015 01.01.2025",
   "61101-8823189-0",
   "Date of Birth: 05/06/1977",
   "Name",
   "JOHN DOE",
   "MALE",
   "Expiry 7.8.2030",
   "02.02.2002 03/03/2003",
   "4.5.2004",
   "Father Name",
   "RICHARD DOE",
   "ISLAMIC REPUBLIC OF PAKISTAN",
   "Name: PAKISTANI KHAN",
   "S/O: 5 KHAN"}

\* whole cards: the name and father's name under their labels, the number in
\* one of its written forms and the gender, in every order of the four
\* blocks, with or without the card's header line
CardNumbers == {"61101-8823189-0", "6110188231890", "61101 8823189 0"}
CardHeaders == {<<>>, <<"ISLAMIC REPUBLIC OF PAKISTAN">>}

CardBlocks(number) ==
  << <<"Name", "JOHN DOE">>, <<"Father Name", "RICHARD DOE">>, <<number>>, <<"MALE">> >>

LabelledCards ==
  {header \o CardBlocks(number)[order[1]] \o CardBlocks(number)[order[2]]
          \o CardBlocks(number)[order[3]] \o CardBlocks(number)[order[4]] :
     header \in CardHeaders, number \in CardNumbers, order \in Permutations(1..4)}

\* cards without labels, read by the fallback scans
UnlabelledCards ==
  { <<"PAKISTAN National Identity Card", "JOHN DOE", "12345", "RICHARD ROE KHAN --",
      "Address: House 5 Street 2 54000">>,
    <<"Country: Wakanda 5", "Residence : Lahore">>,
    <<"Nationality: uk", "Name JOHN DOE", "Husband Name: JOHN DOE", "JOHN ROE">>,
    <<"Issued by: Pakistani", "Name", "12", "HOLDER">>,
    <<"Name", "JOHN DOE", "61101-8823189-0", "JOHN DOE --">> }

\* a name label whose following line is refused, and the label again with a
\* value after it
RepeatedLabelCards == { <<"Name", "MALE", "Name", "JOHN DOE">> }

CnicTexts ==
  {JoinLines(ls, 1) :
     ls \in LinesOver(CnicVocabulary) \cup LabelledCards \cup UnlabelledCards \cup RepeatedLabelCards}

PassportVocabulary ==
  {"Passport Number: XY7654321",
   "Citizenship Number: 6110188231890",
   "01.01.1990 01.01.2015 01.01.2025",
   "10 FEB 1984 6110188231890",
   "F"}

\* the foot of the page: no MRZ, the MRZ as printed (name line above data
\* line), or its two lines in the opposite order
MrzBlocks ==
  {<<>>,
   <<"P<PAKSHAH<<SYEDA<FAREEHA<<<<<<<<<<<<<<<<<<<<<<", "AB1234567<PAK8402105F2105011<<<<">>,
   <<"AB1234567<PAK8402105F2105011<<<<", "P<PAKSHAH<<SYEDA<FAREEHA<<<<<<<<<<<<<<<<<<<<<<">>}

\* the lines of the data page, followed by an MRZ block when at most
\* MaxLinesBeforeMrz lines precede it
PassportPages ==
  {page \in LinesOver(PassportVocabulary) \X MrzBlocks :
     page[2] = <<>> \/ Len(page[1]) <= MaxLinesBeforeMrz}

\* data pages with labelled surname, given names and nationality: the three
\* in every order, each value on its label's line or each on the line after
\* it, and the page with the two lines of an MRZ at its foot
PageBlocks ==
  [sameLine |-> << <<"Surname: KHAN">>, <<"Given Names: AYESHA NOOR">>, <<"Nationality: PAKISTANI">> >>,
   nextLine |-> << <<"Surname", "KHAN">>, <<"Given Name", "AYESHA NOOR">>, <<"Nationality", "PAKISTANI">> >>]

LabelledPages ==
  {PageBlocks[layout][order[1]] \o PageBlocks[layout][order[2]] \o PageBlocks[layout][order[3]] \o foot :
     layout \in {"sameLine", "nextLine"}, order \in Permutations(1..3),
     foot \in {block \in MrzBlocks : Len(block) = 0 \/ SubSeq(block[1], 1, 1) = "A"}}

\* an MRZ in document order whose upper line lost its first five characters
\* and whose document number is a letter A followed by digits
MisreadPages ==
  { <<"SHAH<<SYEDA<FAREEHA<<<<<<<<<<<<<<<<<<<<<<", "A12345678<PAK8402105F2105011<<<<">> }

\* the two lines of an MRZ, data line above name line, followed by blank
\* lines and a last line "F": with MrzWindow - 2 lines after it the block is
\* the top of the scanned window, with one line more its upper line is above
\* the window, with two more the whole block is
LinesAfterMrz == {MrzWindow - 2, MrzWindow - 1, MrzWindow}

WindowPages ==
  {<<"AB1234567<PAK8402105F2105011<<<<", "P<PAKSHAH<<SYEDA<FAREEHA<<<<<<<<<<<<<<<<<<<<<<">>
     \o [k \in 1..n |-> IF k = n THEN "F" ELSE ""] : n \in LinesAfterMrz}

\* three lines of MRZ shape: two data lines above a name line
CrowdedPages ==
  { <<"XY7654321<PAK8402105F2105011<<<<", "AB1234567<PAK8402105F2105011<<<<",
      "P<PAKSHAH<<SYEDA<FAREEHA<<<<<<<<<<<<<<<<<<<<<<">> }

\* a surname label whose following line is refused, and the label again with
\* a value on its line
RepeatedLabelPages == { <<"Surname", "12", "Surname: KHAN">> }

\* a page ending with a standard MRZ as printed: the name line of 44
\* characters above the data line of 44 characters
DocumentOrderPages ==
  { <<"P<PAKSHAH<<SYEDA<FAREEHA<<<<<<<<<<<<<<<<<<<<",
      "XY7654321<PAK8402105F2105011<<<<<<<<<<<<<<00">> }

PassportTexts ==
  {JoinLines(page[1] \o page[2], 1) : page \in PassportPages}
    \cup {JoinLines(page, 1) :
             page \in LabelledPages \cup MisreadPages \cup WindowPages \cup CrowdedPages
                        \cup RepeatedLabelPages \cup DocumentOrderPages}

\* the texts recognized before a failing terminate call
FailedPageTexts == {JoinLines(page, 1) : page \in MisreadPages \cup DocumentOrderPages}

WordConfidences == {0, 51, 100}
WordLists == UNION {[1..n -> WordConfidences] : n \in 0..MaxWords}

NoFields ==
  [documentNumber |-> "", lastName |-> "", firstName |-> "", nationality |-> "", birthDate |-> "",
   sex |-> "", expirationDate |-> "", issuingCountry |-> "", optionalData |-> ""]

FullFields ==
  [documentNumber |-> "AB1234567", lastName |-> "SHAH", firstName |-> "SYEDA FAREEHA",
   nationality |-> "PAK", birthDate |-> "1984-02-10", sex |-> "F", expirationDate |-> "2021-05-01",
   issuingCountry |-> "PAK", optionalData |-> "6110188231890"]

\* what the decoder can answer: it throws, or reports the lines invalid, or valid
MrzResults ==
  {[threw |-> TRUE, valid |-> FALSE, fields |-> NoFields],
   [threw |-> FALSE, valid |-> FALSE, fields |-> FullFields],
   [threw |-> FALSE, valid |-> TRUE, fields |-> FullFields],
   [threw |-> FALSE, valid |-> TRUE,
    fields |-> [FullFields EXCEPT !.documentNumber = "", !.sex = "M", !.birthDate = "840210",
                                  !.optionalData = "61101-8823189-0"]]}

NotDecoded == [threw |-> FALSE, valid |-> FALSE, fields |-> NoFields]

(***************************************************************************)
(* The request handlers.                                                   *)
(***************************************************************************)
VARIABLES route, pc, mime, fileStored, worker, text, ocr, mrzLines, mrzText, mrzResult, mrzData,
          data, cleaned, confidence, debugRead, response

handlerVars == <<route, pc, mime, fileStored, worker, text, ocr, mrzLines, mrzText, mrzResult, mrzData,
                 data, cleaned, confidence, debugRead, response>>

\* the OCR service singleton: ocrServiceInstance, its this.worker, the workers
\* that createWorker has produced, and the position of every task running
\* its code (task 0 is the initializeWorker() call made by the constructor)
VARIABLES ocrServiceInstance, serviceWorker, workersCreated, taskPc, method, made, used,
          processedFiles

serviceVars ==
  <<ocrServiceInstance, serviceWorker, workersCreated, taskPc, method, made, used, processedFiles>>

\* concurrent calls of the dataExtractor singleton's methods: the position of
\* each call, its arguments, the objects the calls allocate, and what the
\* calls have returned
VARIABLES callPc, callArgs, objects, results

extractorVars == <<callPc, callArgs, objects, results>>

\* the normalization of a national identifier applied to a value and then to
\* its own result
VARIABLE normalization

vars == <<handlerVars, serviceVars, extractorVars, normalization>>

\* what the actions of one part of the program leave alone
besidesHandlers == <<serviceVars, extractorVars, normalization>>
besidesService == <<handlerVars, extractorVars, normalization>>
besidesExtractor == <<handlerVars, serviceVars, normalization>>
besidesNormalization == <<handlerVars, serviceVars, extractorVars>>

\* req.query.debug: the parameter is absent or holds a string
DebugQueries == {"absent", "true", "1"}

NoRecord == <<>>
NoConfidence == [ocrConfidence |-> 0, extractionAccuracy |-> 0, overallConfidence |-> 0, mrzUsed |-> FALSE]
NoResponse == [status |-> 0]
ZeroConfidence == Quotient(0, 1)

MaxCallers == 2
Callers == 1..MaxCallers
Tasks == 0..MaxCallers

serviceInit ==
  /\ ocrServiceInstance = FALSE
  /\ serviceWorker = 0
  /\ workersCreated = 0
  /\ taskPc = [t \in Tasks |-> "idle"]
  /\ method = [t \in Callers |-> "none"]
  /\ made = [t \in Tasks |-> 0]
  /\ used = [t \in Callers |-> 0]
  /\ processedFiles = {}

MaxCalls == 2
Calls == 1..MaxCalls

NoArgs == [method |-> "none", text |-> "", mrzData |-> NoMrz]
NoResults == [extracted |-> NoRecord, cleaned |-> NoRecord]

extractorInit ==
  /\ callPc = [c \in Calls |-> "idle"]
  /\ callArgs = [c \in Calls |-> NoArgs]
  /\ objects = [c \in Calls |-> NoRecord]
  /\ results = [c \in Calls |-> NoResults]

NotNormalized == [identifier |-> "", path |-> "none", stage |-> 0, once |-> None, twice |-> None]

\* error.statusCode || 500: the default, and a status carried by the error
ErrorStatusCodes == {500, 422}

handlerInit ==
  /\ route = "none"
  /\ pc = "idle"
  /\ mime = "none"
  /\ fileStored = FALSE
  /\ worker = "none"
  /\ text = ""
  /\ ocr = ZeroConfidence
  /\ mrzLines = <<>>
  /\ mrzText = <<>>
  /\ mrzResult = NotDecoded
  /\ mrzData = NoMrz
  /\ data = NoRecord
  /\ cleaned = NoRecord
  /\ confidence = NoConfidence
  /\ debugRead = "unread"
  /\ response = NoResponse

Init == handlerInit /\ serviceInit /\ extractorInit /\ normalization = NotNormalized

\* if (!req.file) return res.status(400)
NoFile(r) ==
  /\ pc = "idle"
  /\ route' = r
  /\ pc' = "done"
  /\ response' = [status |-> 400, success |-> FALSE]
  /\ UNCHANGED besidesHandlers
  /\ UNCHANGED <<mime, fileStored, worker, text, ocr, mrzLines, mrzText, mrzResult, mrzData, data, cleaned,
                 confidence, debugRead>>

\* a request with an uploaded file, stored by the upload middleware
Upload(r, m) ==
  /\ pc = "idle"
  /\ route' = r
  /\ mime' = m
  /\ fileStored' = TRUE
  /\ pc' = "recognizing"
  /\ UNCHANGED besidesHandlers
  /\ UNCHANGED <<worker, text, ocr, mrzLines, mrzText, mrzResult, mrzData, data, cleaned, confidence, response, debugRead>>

\* passport, PDF: the text of the PDF with the fixed confidence
PassportPdfText(t) ==
  /\ pc = "recognizing" /\ route = "passport" /\ mime = "pdf"
  /\ text' = t
  /\ ocr' = Quotient(PdfConfidence, 1)
  /\ pc' = "recognized"
  /\ UNCHANGED besidesHandlers
  /\ UNCHANGED <<route, mime, fileStored, worker, mrzLines, mrzText, mrzResult, mrzData, data, cleaned,
                 confidence, response, debugRead>>

\* passport, image: a worker is created, recognizes the image and is terminated
PassportOcrText(t, words) ==
  /\ pc = "recognizing" /\ route = "passport" /\ mime = "image"
  /\ text' = t
  /\ ocr' = wordConfidence(words)
  /\ worker' = "terminated"
  /\ pc' = "recognized"
  /\ UNCHANGED besidesHandlers
  /\ UNCHANGED <<route, mime, fileStored, mrzLines, mrzText, mrzResult, mrzData, data, cleaned, confidence,
                 response, debugRead>>

\* passport, image: the text is recognized and the confidence computed, then
\* worker.terminate() rejects: worker = null is not reached
FirstTerminateFails(t, words) ==
  /\ pc = "recognizing" /\ route = "passport" /\ mime = "image"
  /\ text' = t
  /\ ocr' = wordConfidence(words)
  /\ worker' = "active"
  /\ pc' = "failed"
  /\ UNCHANGED besidesHandlers
  /\ UNCHANGED <<route, mime, fileStored, mrzLines, mrzText, mrzResult, mrzData, data, cleaned, confidence,
                 response, debugRead>>

\* the PDF reader or createWorker rejects (no worker is held), or
\* loadLanguage, initialize or recognize rejects (the worker is held)
RecognitionFails(workerCreated) ==
  /\ pc = "recognizing"
  /\ workerCreated => (route = "passport" /\ mime = "image")
  /\ worker' = IF workerCreated THEN "active" ELSE worker
  /\ pc' = "failed"
  /\ UNCHANGED besidesHandlers
  /\ UNCHANGED <<route, mime, fileStored, text, ocr, mrzLines, mrzText, mrzResult, mrzData, data, cleaned,
                 confidence, response, debugRead>>

\* passport: from the recognized text to the confidence report, with the
\* decoder's answer when two MRZ lines were selected
PassportExtract ==
  /\ pc = "recognized" /\ route = "passport"
  /\ \E lines \in {findMrzLines(Chars(text))} :
     \E decoded \in (IF Len(lines) >= 2 THEN MrzResults ELSE {NotDecoded}) :
     \E newMrzData \in {mrzDataFrom(decoded)} :
     \E extractedData \in {extractPassportData(Chars(text), newMrzData)} :
     \E cleanedData \in {cleanData(extractedData)} :
          /\ mrzLines' = [k \in 1..Len(lines) |-> Str(lines[k])]
          /\ mrzText' = IF Len(lines) >= 2 THEN [k \in 1..2 |-> Str(mrzTextLines(lines)[k])]
                        ELSE <<>>
          /\ mrzResult' = decoded
          /\ mrzData' = newMrzData
          /\ data' = extractedData
          /\ cleaned' = cleanedData
          /\ confidence' = confidenceReport(ocr, cleanedData, newMrzData)
  /\ pc' = "extracted"
  /\ UNCHANGED besidesHandlers
  /\ UNCHANGED <<route, mime, fileStored, worker, text, ocr, response, debugRead>>

passportKeyFields == {"surname", "givenNames", "passportNumber"}
cnicKeyFields == {"name", "fatherName"}

\* the debug record included as soon as one key field is missing
includeRawTextIfAnyMissing(debug, cleanedData, keyFields) ==
  debug = "true" \/ \E f \in keyFields : ~hasValue(cleanedData, f)

\* req.query.debug === "true" || (!cleanedData.k1 && !cleanedData.k2 ...)
includeRawText(debug, cleanedData, keyFields) ==
  debug = "true" \/ \A f \in keyFields : ~hasValue(cleanedData, f)

\* the cleanup left out
cleanupFileSkipped(stored) == stored

\* FileUtils.cleanupFile(filePath): the file is unlinked when it exists, and
\* an error of the unlink is swallowed; the unlink is taken to succeed
cleanupFile(stored) == FALSE

\* await FileUtils.cleanupFile(filePath) on the success path of either route
CleanupFile ==
  /\ pc = "extracted"
  /\ fileStored' = cleanupFile(fileStored)
  /\ pc' = "responding"
  /\ UNCHANGED besidesHandlers
  /\ UNCHANGED <<route, mime, worker, text, ocr, mrzLines, mrzText, mrzResult, mrzData, data, cleaned,
                 confidence, debugRead, response>>

\* the success response
PassportRespond(debug) ==
  /\ pc = "responding" /\ route = "passport"
  /\ debugRead' = debug
  /\ response' = [status |-> 200, success |-> TRUE, data |-> cleaned, confidence |-> confidence,
                  debug |-> includeRawText(debug, cleaned, passportKeyFields)]
  /\ pc' = "done"
  /\ UNCHANGED besidesHandlers
  /\ UNCHANGED <<route, mime, fileStored, worker, text, ocr, mrzLines, mrzText, mrzResult, mrzData, data,
                 cleaned, confidence>>

\* CNIC: the text of the PDF or of the image
CnicText(t) ==
  /\ pc = "recognizing" /\ route = "cnic"
  /\ text' = t
  /\ pc' = "recognized"
  /\ UNCHANGED besidesHandlers
  /\ UNCHANGED <<route, mime, fileStored, worker, ocr, mrzLines, mrzText, mrzResult, mrzData, data, cleaned,
                 confidence, response, debugRead>>

CnicExtract ==
  /\ pc = "recognized" /\ route = "cnic"
  /\ \E extractedData \in {extractCNICData(Chars(text))} :
       /\ data' = extractedData
       /\ cleaned' = cleanData(extractedData)
  /\ pc' = "extracted"
  /\ UNCHANGED besidesHandlers
  /\ UNCHANGED <<route, mime, fileStored, worker, text, ocr, mrzLines, mrzText, mrzResult, mrzData, confidence,
                 response, debugRead>>

CnicRespond(debug) ==
  /\ pc = "responding" /\ route = "cnic"
  /\ debugRead' = debug
  /\ response' = [status |-> 200, success |-> TRUE, data |-> cleaned,
                  debug |-> includeRawText(debug, cleaned, cnicKeyFields)]
  /\ pc' = "done"
  /\ UNCHANGED besidesHandlers
  /\ UNCHANGED <<route, mime, fileStored, worker, text, ocr, mrzLines, mrzText, mrzResult, mrzData, data,
                 cleaned, confidence>>

\* the catch block without its call of terminate
catchTerminateSkipped(w, terminateResolves) == w

\* if (worker) { try { await worker.terminate() } catch (e) {} }: the worker
\* is terminated, or the call rejects, the rejection is ignored and the
\* worker is left as it is ("abandoned")
catchTerminate(w, terminateResolves) ==
  IF w # "active" THEN w
  ELSE IF terminateResolves THEN "terminated" ELSE "abandoned"

\* the catch block: terminate is called on a worker still held and the
\* uploaded file is cleaned up
Catch(terminateResolves) ==
  /\ pc = "failed"
  /\ worker' = catchTerminate(worker, terminateResolves)
  /\ fileStored' = cleanupFile(fileStored)
  /\ pc' = "reporting"
  /\ UNCHANGED besidesHandlers
  /\ UNCHANGED <<route, mime, text, ocr, mrzLines, mrzText, mrzResult, mrzData, data, cleaned, confidence,
                 debugRead, response>>

\* the catch block ending without a response
FailSilently(statusCode) ==
  /\ pc = "reporting"
  /\ pc' = "done"
  /\ UNCHANGED besidesHandlers
  /\ UNCHANGED <<route, mime, fileStored, worker, text, ocr, mrzLines, mrzText, mrzResult, mrzData, data,
                 cleaned, confidence, debugRead, response>>

\* the catch block's response: error.statusCode || 500
Fail(statusCode) ==
  /\ pc = "reporting"
  /\ response' = [status |-> statusCode, success |-> FALSE]
  /\ pc' = "done"
  /\ UNCHANGED besidesHandlers
  /\ UNCHANGED <<route, mime, fileStored, worker, text, ocr, mrzLines, mrzText, mrzResult, mrzData, data,
                 cleaned, confidence, debugRead>>

Next ==
  \/ \E r \in {"passport", "cnic"} : NoFile(r)
  \/ \E r \in {"passport", "cnic"}, m \in {"pdf", "image"} : Upload(r, m)
  \/ \E t \in PassportTexts : PassportPdfText(t)
  \/ \E t \in PassportTexts, words \in WordLists : PassportOcrText(t, words)
  \/ \E t \in FailedPageTexts, words \in WordLists : FirstTerminateFails(t, words)
  \/ \E workerCreated \in BOOLEAN : RecognitionFails(workerCreated)
  \/ PassportExtract
  \/ CleanupFile
  \/ \E debug \in DebugQueries : PassportRespond(debug)
  \/ \E t \in CnicTexts : CnicText(t)
  \/ CnicExtract
  \/ \E debug \in DebugQueries : CnicRespond(debug)
  \/ \E terminateResolves \in BOOLEAN : Catch(terminateResolves)
  \/ \E statusCode \in ErrorStatusCodes : Fail(statusCode)

Spec == Init /\ [][Next]_vars

(***************************************************************************)
(* OCRService and getOCRService: the tasks that run the service's code.    *)
(* A task keeps the processor from one await to the next, so every action  *)
(* below is the code between two awaits.                                   *)
(***************************************************************************)
\* initializeWorker() up to its first await: it returns at once when
\* this.worker is set, and otherwise waits for Tesseract.createWorker
initializeWorkerPc(current) == IF current # 0 THEN "initialized" ELSE "creating"

\* the call of this.worker.recognize: the worker is the one this.worker
\* names at the moment of the call
recognizeWith(t) ==
  /\ used' = [used EXCEPT ![t] = serviceWorker]
  /\ taskPc' = [taskPc EXCEPT ![t] = "recognizing"]

\* after the worker check: extractTextFromImage awaits preprocessImage,
\* extractTextFromBuffer calls recognize
afterWorkerCheck(t, m) ==
  IF m = "image"
    THEN taskPc' = [taskPc EXCEPT ![t] = "preprocessing"] /\ UNCHANGED used
    ELSE recognizeWith(t)

\* getOCRService(): the first call constructs the service, and the
\* constructor sets this.worker = null and calls initializeWorker()
GetOCRService(t) ==
  /\ taskPc[t] = "idle"
  /\ ocrServiceInstance' = TRUE
  /\ taskPc' = [taskPc EXCEPT ![t] = "holding",
                              ![0] = IF ocrServiceInstance THEN @ ELSE initializeWorkerPc(0)]
  /\ UNCHANGED <<serviceWorker, workersCreated, method, made, used, processedFiles>>
  /\ UNCHANGED besidesService

\* extractTextFromImage / extractTextFromBuffer up to the first await:
\* if (!this.worker) await this.initializeWorker()
ExtractText(t, m) ==
  /\ taskPc[t] = "holding"
  /\ method' = [method EXCEPT ![t] = m]
  /\ IF serviceWorker = 0
       THEN taskPc' = [taskPc EXCEPT ![t] = initializeWorkerPc(serviceWorker)] /\ UNCHANGED used
       ELSE afterWorkerCheck(t, m)
  /\ UNCHANGED <<ocrServiceInstance, serviceWorker, workersCreated, made, processedFiles>>
  /\ UNCHANGED besidesService

\* Tesseract.createWorker resolves: this.worker = the new worker, then
\* setParameters is awaited
CreateWorkerResolves(t) ==
  /\ taskPc[t] = "creating"
  /\ workersCreated' = workersCreated + 1
  /\ made' = [made EXCEPT ![t] = workersCreated + 1]
  /\ serviceWorker' = workersCreated + 1
  /\ taskPc' = [taskPc EXCEPT ![t] = "configuring"]
  /\ UNCHANGED <<ocrServiceInstance, method, used, processedFiles>>
  /\ UNCHANGED besidesService

\* setParameters resolves and initializeWorker returns: the constructor's
\* call is over, a caller goes on after its await
SetParametersResolves(t) ==
  /\ taskPc[t] = "configuring"
  /\ IF t = 0
       THEN taskPc' = [taskPc EXCEPT ![t] = "initialized"] /\ UNCHANGED used
       ELSE afterWorkerCheck(t, method[t])
  /\ UNCHANGED <<ocrServiceInstance, serviceWorker, workersCreated, method, made, processedFiles>>
  /\ UNCHANGED besidesService

\* createWorker or setParameters rejects: initializeWorker rethrows, and
\* a caller's catch block throws "OCR extraction failed"
InitializeWorkerRejects(t) ==
  /\ taskPc[t] \in {"creating", "configuring"}
  /\ taskPc' = [taskPc EXCEPT ![t] = "failed"]
  /\ UNCHANGED <<ocrServiceInstance, serviceWorker, workersCreated, method, made, used, processedFiles>>
  /\ UNCHANGED besidesService

\* preprocessImage resolves: with the path of the file sharp wrote, or,
\* when sharp threw, with the path of the original image; recognize is
\* called on that path
PreprocessImage(t, written) ==
  /\ taskPc[t] = "preprocessing"
  /\ processedFiles' = IF written THEN processedFiles \cup {t} ELSE processedFiles
  /\ recognizeWith(t)
  /\ UNCHANGED <<ocrServiceInstance, serviceWorker, workersCreated, method, made>>
  /\ UNCHANGED besidesService

\* recognize resolves: the processed image, when there is one, is
\* unlinked and the trimmed text returned
RecognizeResolves(t) ==
  /\ taskPc[t] = "recognizing"
  /\ processedFiles' = processedFiles \ {t}
  /\ taskPc' = [taskPc EXCEPT ![t] = "returned"]
  /\ UNCHANGED <<ocrServiceInstance, serviceWorker, workersCreated, method, made, used>>
  /\ UNCHANGED besidesService

\* recognize rejects: the catch block logs and throws
RecognizeRejects(t) ==
  /\ taskPc[t] = "recognizing"
  /\ taskPc' = [taskPc EXCEPT ![t] = "failed"]
  /\ UNCHANGED <<ocrServiceInstance, serviceWorker, workersCreated, method, made, used, processedFiles>>
  /\ UNCHANGED besidesService

ServiceNext ==
  \/ \E t \in Callers : GetOCRService(t)
  \/ \E t \in Callers, m \in {"image", "buffer"} : ExtractText(t, m)
  \/ \E t \in Tasks : CreateWorkerResolves(t)
  \/ \E t \in Tasks : SetParametersResolves(t)
  \/ \E t \in Tasks : InitializeWorkerRejects(t)
  \/ \E t \in Callers, written \in BOOLEAN : PreprocessImage(t, written)
  \/ \E t \in Callers : RecognizeResolves(t)
  \/ \E t \in Callers : RecognizeRejects(t)

ServiceSpec == Init /\ [][ServiceNext]_vars

(***************************************************************************)
(* Concurrent extractions on the dataExtractor singleton.  A call runs     *)
(* extractCNICData or extractPassportData and then cleanData on what it    *)
(* returned, as the routes do; the steps of different calls interleave.    *)
(***************************************************************************)
cnicDataFields ==
  {"name", "fatherName", "country", "cnicNumber", "dateOfBirth", "dateOfIssue", "dateOfExpiry",
   "gender", "address"}

passportDataFields ==
  {"passportNumber", "surname", "givenNames", "nationality", "dateOfBirth", "placeOfBirth", "gender",
   "dateOfIssue", "dateOfExpiry", "issuingAuthority", "husbandName", "fatherName",
   "citizenshipNumber", "trackingNumber"}

\* const data = { name: null, ..., rawText: text }
newData(args) ==
  [f \in (IF args.method = "cnic" THEN cnicDataFields ELSE passportDataFields) \cup {"rawText"} |->
     IF f = "rawText" THEN <<args.text>> ELSE None]

\* the body of the method: the fields of data are assigned
extractData(args) ==
  IF args.method = "cnic" THEN extractCNICData(Chars(args.text))
  ELSE extractPassportData(Chars(args.text), args.mrzData)

\* one object for all calls, as a field of the singleton would be
dataOfInstance(c) == 1

\* the object a call works on: const data = {...} and const cleaned =
\* {...data} allocate a new object in every call
dataOf(c) == c

ExtractionTexts ==
  [cnic |-> {JoinLines(<<"Name", "JOHN DOE", "Father Name", "RICHARD DOE", "61101-8823189-0", "MALE">>, 1),
             "Date of Birth: 05/06/1977"},
   passport |-> {"Passport Number: XY7654321", "10 FEB 1984 6110188231890"}]

ExtractionArgs ==
  {[method |-> "cnic", text |-> t, mrzData |-> NoMrz] : t \in ExtractionTexts.cnic}
    \cup {[method |-> "passport", text |-> t, mrzData |-> m] :
            t \in ExtractionTexts.passport, m \in {NoMrz, mrzDataOf(FullFields)}}

\* the method is entered and allocates its data object
ExtractBegin(c, args) ==
  /\ callPc[c] = "idle"
  /\ callArgs' = [callArgs EXCEPT ![c] = args]
  /\ objects' = [objects EXCEPT ![dataOf(c)] = newData(args)]
  /\ callPc' = [callPc EXCEPT ![c] = "extracting"]
  /\ UNCHANGED results
  /\ UNCHANGED besidesExtractor

\* the fields of the data object are assigned from the arguments
ExtractFill(c) ==
  /\ callPc[c] = "extracting"
  /\ objects' = [objects EXCEPT ![dataOf(c)] = extractData(callArgs[c])]
  /\ callPc' = [callPc EXCEPT ![c] = "filled"]
  /\ UNCHANGED <<callArgs, results>>
  /\ UNCHANGED besidesExtractor

\* return data
ExtractReturn(c) ==
  /\ callPc[c] = "filled"
  /\ results' = [results EXCEPT ![c].extracted = objects[dataOf(c)]]
  /\ callPc' = [callPc EXCEPT ![c] = "extracted"]
  /\ UNCHANGED <<callArgs, objects>>
  /\ UNCHANGED besidesExtractor

\* cleanData(data): const cleaned = { ...data }
CleanBegin(c) ==
  /\ callPc[c] = "extracted"
  /\ objects' = [objects EXCEPT ![dataOf(c)] = results[c].extracted]
  /\ callPc' = [callPc EXCEPT ![c] = "cleaning"]
  /\ UNCHANGED <<callArgs, results>>
  /\ UNCHANGED besidesExtractor

\* the keys of cleaned are pruned and completed, and cleaned is returned
CleanReturn(c) ==
  /\ callPc[c] = "cleaning"
  /\ results' = [results EXCEPT ![c].cleaned = cleanData(objects[dataOf(c)])]
  /\ callPc' = [callPc EXCEPT ![c] = "cleaned"]
  /\ UNCHANGED <<callArgs, objects>>
  /\ UNCHANGED besidesExtractor

ExtractionNext ==
  \/ \E c \in Calls, args \in ExtractionArgs : ExtractBegin(c, args)
  \/ \E c \in Calls : ExtractFill(c)
  \/ \E c \in Calls : ExtractReturn(c)
  \/ \E c \in Calls : CleanBegin(c)
  \/ \E c \in Calls : CleanReturn(c)

ExtractionSpec == Init /\ [][ExtractionNext]_vars

(***************************************************************************)
(* The normalization of a national identifier: by extractCNICData on the   *)
(* text, and by the passport route on the optional data of the MRZ.        *)
(***************************************************************************)
GroupsOfFive == {"61101", "00000", "99999"}
GroupsOfSeven == {"8823189", "0000000"}
CheckDigits == {"0", "7", "9"}
Separators == {"-", "", " "}

\* identifiers as they are printed or read, and a few values that are none
Identifiers ==
  {a \o s1 \o b \o s2 \o c :
     a \in GroupsOfFive, s1 \in Separators, b \in GroupsOfSeven, s2 \in Separators, c \in CheckDigits}
    \cup {"611018823189012", "6110-8823189-0", "61101--8823189-0", "CNIC 61101-8823189-0 PAK"}

normalizeBy(path, value) ==
  IF path = "text" THEN cnicNumberOf(Chars(value)) ELSE mrzCitizenshipNumber(value)

\* the value is normalized
Normalize(path) ==
  /\ normalization.stage = 0
  /\ normalization' = [normalization EXCEPT !.path = path, !.stage = 1,
                                             !.once = normalizeBy(path, normalization.identifier)]
  /\ UNCHANGED besidesNormalization

\* the result, when there is one, is normalized again
NormalizeAgain ==
  /\ normalization.stage = 1
  /\ Truthy(normalization.once)
  /\ normalization' = [normalization EXCEPT !.stage = 2,
                                             !.twice = normalizeBy(normalization.path, normalization.once[1])]
  /\ UNCHANGED besidesNormalization

NormalizationInit ==
  /\ handlerInit /\ serviceInit /\ extractorInit
  /\ \E identifier \in Identifiers : normalization = [NotNormalized EXCEPT !.identifier = identifier]

NormalizationNext ==
  \/ \E path \in {"text", "mrz"} : Normalize(path)
  \/ NormalizeAgain

NormalizationSpec == NormalizationInit /\ [][NormalizationNext]_vars

(***************************************************************************)
(* Properties.                                                             *)
(***************************************************************************)
NationalIDRequired == {"name", "fatherName", "country", "cnicNumber"}

PassportRequired ==
  {"passportNumber", "surname", "givenNames", "nationality", "fatherName", "dateOfIssue",
   "issuingAuthority", "trackingNumber", "husbandName", "citizenshipNumber"}

RequiredOf(r) == IF r = "passport" THEN PassportRequired ELSE NationalIDRequired

Cleaned == pc \in {"extracted", "responding", "done"} /\ cleaned # NoRecord

\* C1: every key of the document type's required-field set is a key of the
\* output of cleanData, holding a value or null; it is never omitted.
C1_RequiredKeysPresent ==
  Cleaned =>
    \A key \in RequiredOf(route) :
      /\ key \in DOMAIN cleaned
      /\ cleaned[key] = None \/ (Len(cleaned[key]) = 1 /\ cleaned[key] # None)

\* a passport record whose husbandName was null before and is kept as null,
\* beside a required field that holds a value
C1_Witness ==
  /\ Cleaned /\ route = "passport"
  /\ data.husbandName = None /\ cleaned.husbandName = None
  /\ cleaned.passportNumber # None

\* the passport request has got as far as its confidence report
Scored == Cleaned /\ route = "passport"

\* two MRZ lines were selected and the decoder reported them valid
MrzValidated == Len(mrzLines) >= 2 /\ mrzResult.valid /\ ~mrzResult.threw

\* the decoder was called and threw or reported the lines invalid
MrzRejected == Len(mrzLines) >= 2 /\ (mrzResult.threw \/ ~mrzResult.valid)

MrzFields ==
  {"passportNumber", "surname", "givenNames", "nationality", "dateOfBirth", "gender", "dateOfExpiry",
   "citizenshipNumber"}

\* C2: given a validated MRZ record, each field both pipelines can produce
\* is returned with the MRZ value whenever the MRZ value is present.
C2_MrzValueWins ==
  (Scored /\ mrzData # NoMrz) =>
    \A f \in MrzFields :
      Truthy(mrzData[1][f]) => (f \in DOMAIN cleaned /\ cleaned[f] = mrzData[1][f])

\* C3: an MRZ record contributes only if two MRZ lines were selected and the
\* decoder reported them valid; when the decoder throws or reports invalid,
\* the request is not failed and completes with a success response, mrzUsed
\* is false, no bonus is added, and the record is the heuristic one.
C3_MrzOnlyWhenValidated ==
  /\ (Scored /\ (mrzData # NoMrz \/ confidence.mrzUsed)) => MrzValidated
  /\ (route = "passport" /\ MrzRejected) =>
        /\ pc \in {"extracted", "responding", "done"}
        /\ mrzData = NoMrz
        /\ ~confidence.mrzUsed
        /\ confidence.overallConfidence =
             RoundQuotient(10 * ocr.num + 6 * confidence.extractionAccuracy * ocr.den, 20 * ocr.den)
        /\ pc = "extracted" =>
             /\ cleaned = cleanData(extractPassportData(Chars(text), NoMrz))
             /\ ENABLED CleanupFile
        /\ pc = "responding" => ENABLED (\E debug \in DebugQueries : PassportRespond(debug))
        /\ pc = "done" => (response.status = 200 /\ response.success /\ response.data = cleaned)

\* the decoder threw on two selected lines; the response is a success whose
\* passport number was read from its label
C3_Witness ==
  /\ route = "passport" /\ pc = "done" /\ Len(mrzLines) >= 2 /\ mrzResult.threw
  /\ response.success /\ ~response.confidence.mrzUsed
  /\ response.data.passportNumber = <<"XY7654321">>

\* C4, as stated: extractionAccuracy is round(100 k / n) over the Passport
\* required-field set.
C4_AccuracyOverRequiredFields ==
  Scored =>
    confidence.extractionAccuracy =
      RoundQuotient(100 * Cardinality({f \in PassportRequired : cleaned[f] # None}),
                    Cardinality(PassportRequired))

CheckedFields ==
  {"passportNumber", "surname", "givenNames", "nationality", "dateOfBirth", "placeOfBirth", "gender",
   "dateOfIssue", "dateOfExpiry", "issuingAuthority", "husbandName", "citizenshipNumber"}

\* C4, amended: extractionAccuracy is round(100 k / 12), k counting the
\* fields among the twelve checked ones that hold a non-empty value in the
\* returned record; r = round(q) is stated as q - 1/2 <= r < q + 1/2.
C4_AccuracyOverCheckedFields ==
  Scored =>
    LET k == Cardinality({f \in CheckedFields \cap DOMAIN cleaned :
                            cleaned[f] # None /\ cleaned[f] # <<"">>})
        r == confidence.extractionAccuracy
    IN (2 * r - 1) * 12 <= 200 * k /\ 200 * k < (2 * r + 1) * 12

\* gender, a checked but not required field, is the only value: 1 of 12
C4_Witness ==
  /\ Scored /\ text = "F" /\ cleaned.gender = <<"F">>
  /\ confidence.extractionAccuracy = 8

\* C5: overallConfidence is min(100, round(0.5 ocrConfidence +
\* 0.3 extractionAccuracy + b)), b being 20 exactly when an MRZ record was
\* validated and used, else 0.  ocrConfidence is num / den, so twenty den
\* times the rounded sum is sum20; r = round(q) is q - 1/2 <= r < q + 1/2.
C5_OverallConfidence ==
  Scored =>
    LET b == IF MrzValidated THEN 20 ELSE 0
        sum20 == 10 * ocr.num + (6 * confidence.extractionAccuracy + 20 * b) * ocr.den
        half == 10 * ocr.den
        r == confidence.overallConfidence
    IN IF sum20 >= 199 * half THEN r = 100
       ELSE (2 * r - 1) * half <= sum20 /\ sum20 < (2 * r + 1) * half

\* an image whose words average 75.5, with a validated MRZ
C5_Witness ==
  /\ Scored /\ MrzValidated /\ confidence.mrzUsed
  /\ ocr.num = 151 /\ ocr.den = 2
  /\ confidence.overallConfidence \in 58..99

\* C6: extractionAccuracy and overallConfidence are integers in [0,100];
\* for the empty text extractionAccuracy is 0 and overallConfidence is
\* round(0.5 ocrConfidence).
C6_ScoresBounded ==
  Scored =>
    /\ confidence.extractionAccuracy \in 0..100
    /\ confidence.overallConfidence \in 0..100
    /\ text = "" =>
         /\ confidence.extractionAccuracy = 0
         /\ (2 * confidence.overallConfidence - 1) * ocr.den <= ocr.num
         /\ ocr.num < (2 * confidence.overallConfidence + 1) * ocr.den

\* the empty text recognized in an image whose words average 75.5
C6_Witness ==
  /\ Scored /\ text = "" /\ ocr.num = 151 /\ ocr.den = 2
  /\ confidence.extractionAccuracy = 0 /\ confidence.overallConfidence = 38

\* v is made of digits, dashes and spaces and holds thirteen digits
IsThirteenDigitIdentifier(v) ==
  LET cs == Chars(v)
  IN /\ \A i \in 1..Len(cs) : cs[i] \in DIGIT \cup {"-", " "}
     /\ Cardinality({i \in 1..Len(cs) : cs[i] \in DIGIT}) = 13

\* v reads XXXXX-XXXXXXX-X
IsDashedIdentifier(v) ==
  LET cs == Chars(v)
  IN /\ Len(cs) = 15
     /\ \A i \in 1..Len(cs) : IF i \in {6, 14} THEN cs[i] = "-" ELSE cs[i] \in DIGIT

\* C7: a returned 13-digit national identifier, cnicNumber or
\* citizenshipNumber, reads five digits, dash, seven digits, dash, one digit.
C7_IdentifierDashed ==
  Cleaned =>
    \A key \in {"cnicNumber", "citizenshipNumber"} \cap DOMAIN cleaned :
      (cleaned[key] # None /\ IsThirteenDigitIdentifier(cleaned[key][1]))
        => IsDashedIdentifier(cleaned[key][1])

\* the trimmed non-empty lines of the text
TextLines(t) ==
  LET ls == nonEmptyLines(Chars(t))
  IN [k \in 1..Len(ls) |-> Str(ls[k])]

\* the dates of the lines, in text order, read off a table of the lines' dates
RECURSIVE DatesInOrder(_, _, _)
DatesInOrder(datesOfLine, lines, k) ==
  IF k > Len(lines) THEN <<>>
  ELSE (IF lines[k] \in DOMAIN datesOfLine THEN datesOfLine[lines[k]] ELSE <<>>)
         \o DatesInOrder(datesOfLine, lines, k + 1)

\* the words that label a date, as a name ending in DOE does too
DateLabelWords == {"DOB", "BIRTH", "DOI", "ISSUE", "ISSUANCE", "DOE", "EXPIR", "VALID UNTIL"}

NoDateLabel(t) == \A word \in DateLabelWords : ~includes(toUpperCase(Chars(t)), Chars(word))

CnicUnlabeledDates ==
  [line \in {"01.01.1990 01.01.2015 01.01.2025", "02.02.2002 03/03/2003", "4.5.2004"} |->
     CASE line = "01.01.1990 01.01.2015 01.01.2025" -> <<"01.01.1990", "01.01.2015", "01.01.2025">>
       [] line = "02.02.2002 03/03/2003" -> <<"02.02.2002", "03/03/2003">>
       [] line = "4.5.2004" -> <<"4.5.2004">>]

\* C8: NationalID text with exactly three unlabeled dates and no date label:
\* dateOfBirth is the first date in text order, dateOfIssue the second and
\* dateOfExpiry the third.
C8_CnicDatesByPosition ==
  (Cleaned /\ route = "cnic") =>
    LET lines == TextLines(text)
        dates == DatesInOrder(CnicUnlabeledDates, lines, 1)
    IN (NoDateLabel(text) /\ Len(dates) = 3) =>
         /\ {"dateOfBirth", "dateOfIssue", "dateOfExpiry"} \subseteq DOMAIN cleaned
         /\ cleaned.dateOfBirth = <<dates[1]>>
         /\ cleaned.dateOfIssue = <<dates[2]>>
         /\ cleaned.dateOfExpiry = <<dates[3]>>

\* one date on the first line and two on the second
C8_Witness ==
  /\ Cleaned /\ route = "cnic" /\ text = "4.5.2004\n02.02.2002 03/03/2003"
  /\ cleaned.dateOfBirth = <<"4.5.2004">>
  /\ cleaned.dateOfIssue = <<"02.02.2002">>
  /\ cleaned.dateOfExpiry = <<"03/03/2003">>

PassportNumericDates ==
  [line \in {"01.01.1990 01.01.2015 01.01.2025"} |-> <<"01.01.1990", "01.01.2015", "01.01.2025">>]

PassportMonthNameDates == [line \in {"10 FEB 1984 6110188231890"} |-> <<"10 FEB 1984">>]

\* the passport text holds no date label and no dates but the three given
UnlabeledDates(dates) ==
  /\ Len(dates) = 3
  /\ NoDateLabel(text)
  /\ DatesInOrder(PassportMonthNameDates, TextLines(text), 1) = <<>>

C10_OptionalKeysHoldValues ==
  Cleaned =>
    \A key \in DOMAIN cleaned \ RequiredOf(route) :
      cleaned[key] # None /\ cleaned[key] # <<"">>

\* the empty text: rawText is the empty string and dateOfBirth null before
\* cleanData, and neither is a key after it
C10_Witness ==
  /\ Cleaned /\ route = "passport"
  /\ data.rawText = <<"">> /\ data.dateOfBirth = None
  /\ "rawText" \notin DOMAIN cleaned /\ "dateOfBirth" \notin DOMAIN cleaned
\* C11: in a passport extraction placeOfBirth, dateOfIssue and issuingAuthority
\* are the values the same text yields without any MRZ record, whatever the
\* MRZ record (its issuing country included) holds.
MrzFreeFields == {"placeOfBirth", "dateOfIssue", "issuingAuthority"}

C11_MrzFreeFields ==
  (Scored /\ pc = "extracted") =>
    \A withoutMrz \in {extractPassportData(Chars(text), NoMrz)} :
       \A f \in MrzFreeFields : data[f] = withoutMrz[f]

C11_Witness ==
  /\ Scored /\ pc = "extracted" /\ MrzValidated
  /\ mrzData[1].issuingAuthority = <<"PAK">>
  /\ data.issuingAuthority = None
  /\ data.dateOfIssue = None
  /\ data.passportNumber = <<"AB1234567">>
\* C12: a successful response carries the debug record exactly when the
\* request asked for it with debug=true or every key identifying field of the
\* returned record is absent (Passport: surname, givenNames, passportNumber;
\* NationalID: name, fatherName).
Absent(record, f) == f \notin DOMAIN record \/ record[f] = None \/ record[f] = <<"">>

KeyFieldsOf(r) ==
  IF r = "passport" THEN {"surname", "givenNames", "passportNumber"} ELSE {"name", "fatherName"}

Succeeded == pc = "done" /\ response.status = 200

C12_DebugWhenAskedOrKeyless ==
  Succeeded =>
    (response.debug <=>
       (debugRead = "true" \/ \A f \in KeyFieldsOf(route) : Absent(response.data, f)))

C12_Witness ==
  /\ Succeeded /\ route = "cnic" /\ debugRead = "1"
  /\ response.data.name = <<"JOHN DOE">>
  /\ Absent(response.data, "fatherName")
  /\ ~response.debug

Recognizing(t) == used[t] # 0

\* C13: under every interleaving of getOCRService(), the constructor's own
\* initializeWorker() and concurrent extractTextFromImage /
\* extractTextFromBuffer calls, at most one OCR worker is ever created and
\* every recognition runs on that one worker.
C13_WorkerCreatedOnce ==
  /\ workersCreated <= 1
  /\ \A t \in Callers : Recognizing(t) => used[t] = 1

Completed(t) == taskPc[t] \in {"returned", "failed"}

\* C15: when extractTextFromImage has completed, by returning the text or by
\* throwing, the processed image that preprocessImage wrote for it is no
\* longer on disk.
C15_ProcessedImageDeleted ==
  \A t \in Callers : (method[t] = "image" /\ Completed(t)) => t \notin processedFiles

Uploaded == mime # "none"

\* C14: in a request whose uploaded file was stored, the step that sends the
\* response, success or error, starts with the file already cleaned up.
C14_CleanupBeforeResponse ==
  [][(response' # response /\ Uploaded) => ~fileStored]_vars

\* an error response after a failed recognition: the worker the route had
\* created is terminated and the stored file is gone
C14_Witness ==
  /\ pc = "done" /\ Uploaded /\ response.status = 500
  /\ worker = "terminated" /\ ~fileStored

\* what a call returns when it runs alone
AloneExtracted(args) == extractData(args)
AloneCleaned(args) == cleanData(extractData(args))

CnicShaped(l) ==
  \E s1 \in 0..1, s2 \in 0..1 :
    /\ Len(l) = 13 + s1 + s2
    /\ \A k \in 1..Len(l) :
         IF (s1 = 1 /\ k = 6) \/ (s2 = 1 /\ k = 13 + s1)
           THEN SubSeq(l, k, k) \in {"-", " "}
           ELSE SubSeq(l, k, k) \in {"0", "1", "2", "3", "4", "5", "6", "7", "8", "9"}

DigitsOf(l) == Str(SelectSeq(Chars(l), LAMBDA c : c \notin {"-", " "}))

Dashed(l) ==
  SubSeq(DigitsOf(l), 1, 5) \o "-" \o SubSeq(DigitsOf(l), 6, 12) \o "-" \o SubSeq(DigitsOf(l), 13, 13)

Follows(ls, label, value) ==
  \E k \in 1..(Len(ls) - 1) : ls[k] = label /\ ls[k + 1] = value

\* the lines hold "Name" then "JOHN DOE", "Father Name" then "RICHARD DOE",
\* a CNIC-shaped number and the token MALE
ScenarioCard(ls) ==
  /\ Follows(ls, "Name", "JOHN DOE")
  /\ Follows(ls, "Father Name", "RICHARD DOE")
  /\ \E k \in 1..Len(ls) : CnicShaped(ls[k])
  /\ \E k \in 1..Len(ls) : ls[k] = "MALE"

CnicExtracted == route = "cnic" /\ pc \in {"extracted", "responding", "done"}

\* C17: for a card text with the lines "Name" / "JOHN DOE", "Father Name" /
\* "RICHARD DOE", a CNIC-shaped number and a MALE token, the record has name
\* JOHN DOE, fatherName RICHARD DOE, gender MALE and the number with dashes.
C17_LabelledCardScenario ==
  (CnicExtracted /\ pc = "extracted") =>
    \A ls \in {TextLines(text)} :
      ScenarioCard(ls) =>
        /\ data.name = <<"JOHN DOE">>
        /\ data.fatherName = <<"RICHARD DOE">>
        /\ data.gender = <<"MALE">>
        /\ \E k \in 1..Len(ls) : CnicShaped(ls[k]) /\ data.cnicNumber = <<Dashed(ls[k])>>

\* the father's lines come first and the number is printed without dashes
C17_Witness ==
  /\ CnicExtracted /\ pc = "done"
  /\ text = JoinLines(<<"Father Name", "RICHARD DOE", "6110188231890", "Name", "JOHN DOE", "MALE">>, 1)
  /\ response.data.name = <<"JOHN DOE">> /\ response.data.fatherName = <<"RICHARD DOE">>
  /\ response.data.gender = <<"MALE">> /\ response.data.cnicNumber = <<"61101-8823189-0">>

ExclusionTerms == {Chars(excludeKeywords[k]) : k \in 1..Len(excludeKeywords)}

MinNameLength == 2

\* the value is long enough, does not begin with a digit, and is no exclusion
\* term nor begins or ends with one as a word of its own
Screened(value) ==
  /\ Len(value) >= MinNameLength
  /\ value[1] \notin DIGIT
  /\ \A term \in ExclusionTerms :
       /\ value # term
       /\ ~startsWith(value, term \o <<" ">>)
       /\ ~endsWith(value, <<" ">> \o term)

\* C20: a name or fatherName that the label scan accepted, from the label's
\* line or from the line after it, has the minimum length, does not start with
\* a digit, and neither equals nor starts with nor ends with an exclusion term.
C20_LabelCandidateScreened ==
  (CnicExtracted /\ pc = "extracted") =>
    \A ls \in {nonEmptyLines(Chars(text))} :
      \A name \in {cnicNameLabel(ls)} :
        /\ Truthy(name) => Screened(Chars(name[1]))
        /\ \A fatherName \in {cnicFatherNameLabel(ls, name)} :
             Truthy(fatherName) => Screened(Chars(fatherName[1]))

\* XXXXX-XXXXXXX-X
InDashedForm(v) ==
  /\ Len(v) = 15
  /\ \A k \in 1..15 :
       IF k \in {6, 14} THEN SubSeq(v, k, k) = "-"
       ELSE SubSeq(v, k, k) \in {"0", "1", "2", "3", "4", "5", "6", "7", "8", "9"}

\* C19: the normalization of a national identifier returns a value that is
\* already in the form XXXXX-XXXXXXX-X unchanged, whether the value comes in
\* from outside or is the normalization's own result.
C19_FormattingIdempotent ==
  /\ (normalization.stage >= 1 /\ InDashedForm(normalization.identifier)) =>
        normalization.once = <<normalization.identifier>>
  /\ (normalization.stage = 2 /\ InDashedForm(normalization.once[1])) =>
        normalization.twice = normalization.once

\* a dashed identifier has gone through the normalization of the MRZ's
\* optional data twice and is what it was
C19_Witness ==
  /\ normalization.stage = 2 /\ normalization.path = "mrz"
  /\ normalization.identifier = "99999-0000000-7"
  /\ normalization.once = <<"99999-0000000-7">>
  /\ normalization.twice = <<"99999-0000000-7">>


\* the label with its value after a colon on the same line, or on a line of
\* its own with the value on the next line
Labelled(ls, labels, value) ==
  \E label \in labels :
    \/ \E k \in 1..Len(ls) : ls[k] = label \o ": " \o value
    \/ Follows(ls, label, value)

LabelledPage(ls) ==
  /\ Labelled(ls, {"Surname"}, "KHAN")
  /\ Labelled(ls, {"Given Name", "Given Names"}, "AYESHA NOOR")
  /\ Labelled(ls, {"Nationality"}, "PAKISTANI")

\* C18: for a passport text without a valid MRZ that holds labelled Surname,
\* Given Name and Nationality lines, surname, givenNames and nationality are
\* the labelled values and the confidence report says mrzUsed = false.
C18_LabelledPageScenario ==
  (Scored /\ ~MrzValidated) =>
    \A ls \in {TextLines(text)} :
      LabelledPage(ls) =>
        /\ cleaned.surname = <<"KHAN">>
        /\ cleaned.givenNames = <<"AYESHA NOOR">>
        /\ cleaned.nationality = <<"PAKISTANI">>
        /\ ~confidence.mrzUsed

\* the page carries an MRZ naming another holder, the decoder reported it
\* invalid, and the response holds the labelled values
C18_Witness ==
  /\ route = "passport" /\ pc = "done" /\ response.status = 200
  /\ LabelledPage(TextLines(text))
  /\ Len(mrzLines) >= 2 /\ ~mrzResult.valid /\ ~mrzResult.threw
  /\ response.data.surname = <<"KHAN">> /\ response.data.givenNames = <<"AYESHA NOOR">>
  /\ response.data.nationality = <<"PAKISTANI">> /\ ~response.confidence.mrzUsed

\* C21: in every NationalID record, whichever path produced fatherName (the
\* label's line, the line after the label, or the structural pass with its
\* cleanup of leading and trailing marks), fatherName differs from name when
\* both are present.
C21_FatherNameDiffers ==
  (CnicExtracted /\ data # NoRecord) =>
    ~(Truthy(data.name) /\ Truthy(data.fatherName) /\ data.fatherName = data.name)

DecoderInvoked == route = "passport" /\ Len(mrzText) = 2

\* C22: whenever the MRZ decoder is invoked, each of the two lines handed to
\* it is exactly 44 characters long, line 1 after the re-anchoring of its
\* category marker included.
C22_DecoderLinesAre44 ==
  DecoderInvoked => \A k \in 1..2 : Len(mrzText[k]) = MrzLineLength

\* the fields of a passport record that have a label step and a fallback
passportFallbackFields ==
  {"passportNumber", "dateOfBirth", "dateOfExpiry", "nationality", "givenNames", "placeOfBirth",
   "fatherName", "dateOfIssue", "issuingAuthority", "trackingNumber", "citizenshipNumber"}

\* what field f holds once its label loop has run, cur being what it held before
passportLabelStep(f, lines, cur) ==
  CASE f = "passportNumber" -> passportNumberLabel(lines, cur)
    [] f = "dateOfBirth" -> dateOfBirthLabel(lines, cur)
    [] f = "dateOfExpiry" -> dateOfExpiryLabel(lines, cur)
    [] f = "nationality" -> nationalityLabel(lines, cur)
    [] f = "givenNames" -> givenNamesLabel(lines, cur)
    [] f = "placeOfBirth" -> placeOfBirthLabel(lines, cur)
    [] f = "fatherName" -> passportFatherNameLabel(lines, cur)
    [] f = "dateOfIssue" -> dateOfIssueLabel(lines, cur)
    [] f = "issuingAuthority" -> issuingAuthorityLabel(lines, cur)
    [] f = "trackingNumber" -> trackingNumberLabel(lines, cur)
    [] f = "citizenshipNumber" -> citizenshipNumberLabel(lines, cur)

\* C23: for every field with a label step and a fallback, a value the label
\* step left in the field is the value of the record: the fallback runs only
\* on a field still empty and never replaces a label-derived value.
C23_FallbackKeepsLabelValue ==
  /\ (route = "passport" /\ pc = "extracted") =>
       \A lines \in {nonEmptyLines(Chars(text))} :
         \A f \in passportFallbackFields :
           \A labelled \in {passportLabelStep(f, lines, fromMrz(mrzData, f))} :
             Truthy(labelled) => data[f] = labelled
  /\ (route = "cnic" /\ pc = "extracted") =>
       \A lines \in {nonEmptyLines(Chars(text))} :
         /\ \A labelled \in {cnicNameLabel(lines)} : Truthy(labelled) => data.name = labelled
         /\ \A labelled \in {cnicFatherNameLabel(lines, data.name)} :
              Truthy(labelled) => data.fatherName = labelled

\* a card whose label gives one name while the structural pass, had it run,
\* would have taken another line: the record holds the label's name
C23_Witness ==
  /\ route = "cnic" /\ pc = "extracted"
  /\ \E lines \in {nonEmptyLines(Chars(text))} :
     \E structural \in {nameScanFrom(lines, Max(headerEnd(lines), 1))} :
       /\ Truthy(cnicNameLabel(lines))
       /\ structural.hit /\ structural.v # cnicNameLabel(lines)
       /\ data.name = cnicNameLabel(lines)

\* the indices of the lines the MRZ scan looks at
mrzWindowOf(allLines) == Max(1, Len(allLines) - MrzWindow + 1)..Len(allLines)

\* what the scan selects when it meets line k with the lines in selected so far
selectedAt(allLines, k, selected) == mrzScanLine(selected, allLines[k])

\* the selection described line by line: line 1 is the lowest line of the
\* window accepted as a first line, line 2 the nearest line above it, within
\* the window, accepted after it
windowSelection(allLines) ==
  LET firsts == {k \in mrzWindowOf(allLines) : selectedAt(allLines, k, <<>>) # <<>>}
  IN IF firsts = {} THEN <<>>
     ELSE LET k1 == SetMax(firsts)
              one == selectedAt(allLines, k1, <<>>)
              seconds == {k \in mrzWindowOf(allLines) : k < k1 /\ Len(selectedAt(allLines, k, one)) = 2}
          IN IF seconds = {} THEN one ELSE selectedAt(allLines, SetMax(seconds), one)

PassportExtracted == route = "passport" /\ pc = "extracted"

\* C24: MRZ detection looks at the last 15 lines only, bottom line first, and
\* stops at two accepted lines: the lines selected are the first two accepted
\* going upward inside that window, none from above it, and the first
\* accepted is handed to the decoder as line 1, the second as line 2.
C24_MrzWindowScan ==
  PassportExtracted =>
    \A allLines \in {mrzAllLines(Chars(text))} :
    \A selection \in {windowSelection(allLines)} :
      /\ mrzLines = [k \in 1..Len(selection) |-> Str(selection[k])]
      /\ Len(mrzLines) <= 2
      /\ Len(mrzLines) = 2 =>
           /\ mrzText[1] = Str(reanchorLine1(padMrzLine(selection[1])))
           /\ mrzText[2] = Str(padMrzLine(selection[2]))

\* the upper line of an MRZ is just above the window: only its lower line is selected
C24_Witness ==
  /\ PassportExtracted
  /\ Len(mrzAllLines(Chars(text))) = MrzWindow + 1
  /\ mrzLines = <<"P<PA<SHAH<<SYEDA<FAREEHA<<<<<<<<<<<<<<<<<<<<<<">>

\* the lines carrying the label of the name, and of the surname
nameLabelLines(lines) == {k \in 1..Len(lines) : isNameLabel(toUpperCase(lines[k]))}

surnameLabelLines(lines) ==
  {k \in 1..Len(lines) :
     /\ includes(toUpperCase(lines[k]), Chars("SURNAME")) \/ includes(toUpperCase(lines[k]), Chars("SUR NAME"))
     /\ ~includes(toUpperCase(lines[k]), Chars("GIVEN"))}

\* the lines up to the one after line k
UpToNext(lines, k) == SubSeq(lines, 1, Min(Len(lines), k + 1))

\* C25 as stated: the label scan stops at the first line that matches the
\* label, so a value found by the label step comes from that line or the
\* line after it, and no later line contributes.
C25_StopsAtFirstLabelMatch ==
  /\ (route = "cnic" /\ pc = "extracted") =>
       \A lines \in {nonEmptyLines(Chars(text))} :
         (nameLabelLines(lines) # {} /\ Truthy(cnicNameLabel(lines))) =>
           /\ cnicNameAt(lines, SetMin(nameLabelLines(lines))).hit
           /\ data.name = cnicNameAt(lines, SetMin(nameLabelLines(lines))).v
  /\ (route = "passport" /\ pc = "extracted") =>
       \A lines \in {nonEmptyLines(Chars(text))} :
       \A cur \in {fromMrz(mrzData, "surname")} :
         (surnameLabelLines(lines) # {} /\ data.surname # cur) =>
           /\ surnameAt(lines, SetMin(surnameLabelLines(lines)), cur).hit
           /\ data.surname = surnameAt(lines, SetMin(surnameLabelLines(lines)), cur).v

\* C25, amended: the label scan goes top to bottom and stops at the first
\* label line that yields an accepted candidate, on the line itself or on the
\* line after it; a label line whose candidates are all refused does not stop
\* the scan.  The value is that first accepted candidate, and no line after
\* the one following that label line contributes.
C25_StopsAtFirstAcceptedCandidate ==
  /\ (route = "cnic" /\ pc = "extracted") =>
       \A lines \in {nonEmptyLines(Chars(text))} :
       \A hits \in {{k \in nameLabelLines(lines) : cnicNameAt(lines, k).hit}} :
         IF hits = {} THEN cnicNameLabel(lines) = None
         ELSE /\ data.name = cnicNameAt(lines, SetMin(hits)).v
              /\ cnicNameLabel(UpToNext(lines, SetMin(hits))) = data.name
  /\ (route = "passport" /\ pc = "extracted") =>
       \A lines \in {nonEmptyLines(Chars(text))} :
       \A cur \in {fromMrz(mrzData, "surname")} :
       \A hits \in {{k \in surnameLabelLines(lines) : surnameAt(lines, k, cur).hit}} :
         IF hits = {} THEN data.surname = cur
         ELSE /\ data.surname = surnameAt(lines, SetMin(hits), cur).v
              /\ surnameLabel(UpToNext(lines, SetMin(hits)), cur) = data.surname

\* the first name label is followed by a refused line; the name comes from
\* the second label, while the lines after that one's value are not read
C25_Witness ==
  /\ route = "cnic" /\ pc = "extracted"
  /\ TextLines(text) = <<"Name", "MALE", "Name", "JOHN DOE">>
  /\ data.name = <<"JOHN DOE">>

\* the last two lines are a standard MRZ in document order
StandardMrzAtFoot(allLines) ==
  /\ Len(allLines) >= 2
  /\ \A upper \in {allLines[Len(allLines) - 1]} : \A lower \in {allLines[Len(allLines)]} :
       /\ Len(upper) = MrzLineLength /\ Len(lower) = MrzLineLength
       /\ \A k \in 1..MrzLineLength : upper[k] \in MrzChars /\ lower[k] \in MrzChars
       /\ startsWith(upper, Chars("P<"))
       /\ \A k \in 1..9 : lower[k] \in UPPER \cup DIGIT
       /\ lower[1] \notin {"P", "I", "A"}

\* C26: when the last two lines of the text are a standard MRZ in document
\* order (upper line beginning "P<", lower line beginning with a document
\* number of nine characters not starting with P, I or A), the detection
\* selects the upper line as MRZ line 1 and the lower line as MRZ line 2.
C26_DocumentOrderSelected ==
  (route = "passport" /\ pc = "extracted") =>
    \A allLines \in {mrzAllLines(Chars(text))} :
      StandardMrzAtFoot(allLines) =>
        /\ Len(mrzLines) = 2
        /\ mrzLines[1] = Str(cleanMrzLine(stripArtifacts(allLines[Len(allLines) - 1])))
        /\ mrzLines[2] = Str(cleanMrzLine(stripArtifacts(allLines[Len(allLines)])))

\* the passport handler is about to send its response, or has sent it
AboutToRespond == route = "passport" /\ pc \in {"responding", "reporting", "done"} /\ Uploaded

\* C27 as stated: every worker created by a passport request is terminated
\* before the response is sent, on the success path and on every error path.
C27_WorkerAlwaysTerminated ==
  (AboutToRespond /\ worker # "none") => worker = "terminated"

\* C27, amended: a worker created by a passport request is terminated before
\* the response is sent, after a successful recognition as well as after a
\* rejected loadLanguage, initialize or recognize and after a rejected first
\* terminate call, unless the catch block's own terminate call is rejected:
\* that rejection is ignored and the response goes out all the same.
C27_WorkerTerminatedBeforeResponse ==
  (AboutToRespond /\ worker \notin {"none", "abandoned"}) => worker = "terminated"

\* the text was recognized, the first terminate call was rejected, the catch
\* block's call went through and the error response has been sent
C27_Witness ==
  /\ route = "passport" /\ pc = "done" /\ response.status = 500
  /\ text \in FailedPageTexts /\ data = NoRecord
  /\ worker = "terminated"

\* every key of the argument with a value other than null and "" is in the
\* result with that value
KeepsValues(argument, result) ==
  \A key \in DOMAIN argument :
    Truthy(argument[key]) => key \in DOMAIN result /\ result[key] = argument[key]

\* C28: cleanData leaves the record it is given as it was, and every key of
\* that record whose value is neither null nor "" is in the returned record
\* with the same value.
C28_CleanDataKeepsValues ==
  /\ [](\A c \in Calls : callPc[c] = "cleaned" => KeepsValues(results[c].extracted, results[c].cleaned))
  /\ [][\A c \in Calls : callPc[c] \in {"extracted", "cleaning"} =>
                          results'[c].extracted = results[c].extracted]_vars

\* a card's record has been cleaned: its gender, not a required field, is
\* kept, its empty address is dropped, and the record given is as before
C28_Witness ==
  /\ callPc[1] = "cleaned" /\ callArgs[1].method = "cnic"
  /\ results[1].extracted.gender = <<"MALE">> /\ results[1].extracted.address = None
  /\ results[1].cleaned.gender = <<"MALE">> /\ "address" \notin DOMAIN results[1].cleaned
  /\ results[1].extracted = extractData(callArgs[1])

NoResponseYet == response.status = 0

\* C29: every invocation of a handler sends exactly one response: a 400 when
\* no file was uploaded, otherwise one success response or one error
\* response with success = false and status error.statusCode or 500; a
\* response is never followed by another, and no invocation ends without one.
C29_ExactlyOneResponse ==
  /\ [][response' # response => (NoResponseYet /\ ~NoResponseYet' /\ pc' = "done")]_vars
  /\ [](pc = "done" <=> ~NoResponseYet)
  /\ [](~NoResponseYet =>
          IF ~Uploaded THEN response.status = 400 /\ ~response.success
          ELSE \/ response.success /\ response.status = 200
               \/ ~response.success /\ response.status \in ErrorStatusCodes)

\* a CNIC request whose recognition failed with an error carrying its own
\* status has been answered with that status, once
C29_Witness ==
  /\ route = "cnic" /\ pc = "done" /\ Uploaded
  /\ response = [status |-> 422, success |-> FALSE]

cnicDateFields == {"dateOfBirth", "dateOfIssue", "dateOfExpiry"}

\* how many of the dates of the text are the value
Occurrences(dates, value) == Cardinality({k \in 1..Len(dates) : Some(dates[k]) = value})

\* C30: NationalID extraction never gives one occurrence of a date to two
\* date fields: where two date fields hold the same date, the text holds
\* that date at least twice.
C30_DateOccurrenceUsedOnce ==
  (route = "cnic" /\ pc = "extracted") =>
    \A dates \in {matchAll(normalize(Chars(text)), datePattern)} :
      \A f \in cnicDateFields : \A g \in cnicDateFields \ {f} :
        (Truthy(data[f]) /\ data[f] = data[g]) => Occurrences(dates, data[f]) >= 2

====
